---- MODULE Spec2Model ----
(***************************************************************************)
(* A model of postgirl's Git integration: the credential negotiation of    *)
(* GitService::clone_repository, its status, staging and commit calls,     *)
(* BranchGenerator's name generation, and GitBranchService::create_branch, *)
(* update_config and get_branch_history with the branch_history log, for   *)
(* one caller and for concurrent callers.                                  *)
(*                                                                         *)
(* Strings are sequences of one-character strings, so that replace,        *)
(* truncate, split and the grammar checks are computed character by        *)
(* character as the Rust code computes them.                               *)
(***************************************************************************)
EXTENDS Integers, Sequences, FiniteSets, TLC

VARIABLES
    \* ---- GitService::clone_repository ----
    clonePc,        \* where the running clone is
    cloneEnv,       \* the arguments and the machine the clone runs on
    auth_attempts,  \* the Arc<Mutex<i32>> counter of the callback
    tried_methods,  \* the Arc<Mutex<HashSet<String>>> of the callback
    lastCb,         \* the last invocation of the credentials callback
    offered,        \* the credentials the callback returned, in order
    attemptedAt,    \* strategy tag -> the invocations that attempted it
    engineResult,   \* what builder.clone(..) returned
    cloneResult,    \* what clone_repository returned
    \* ---- BranchGenerator::generate_branch_name as a function ----
    genInput,       \* the generator's config and the pattern it is given
    genOut,         \* what generate_branch_name returned for genInput
    \* ---- BranchGenerator::sanitize_name as a function ----
    sanIn,          \* the string sanitize_name is first given
    sanOut,         \* what sanitize_name returned, each call fed the last result
    \* ---- GitService::get_repository_status as a function ----
    statusIn,       \* what the engine finds at repo_path
    statusOut,      \* what get_repository_status returned for statusIn
    \* ---- GitService on one repository: init, stage, commit ----
    repo,           \* the repository at repo_path and its working directory
    repoOut,        \* the GitService call that returned last: state before, result
    \* ---- GitBranchService and the repository it drives ----
    config,         \* generator.config
    system_info,    \* generator.system_info
    branches,       \* the local branches of the repository at workspace_path
    current,        \* the branch HEAD is on
    history,        \* the rows of branch_history, in insertion order
    clock,          \* chrono::Utc::now()
    calls,          \* caller -> the create_branch call it has in flight
    lastDone,       \* the create_branch call that returned last
    engineNames,    \* every branch name handed to git by create_branch
    createdNames,   \* every branch a create_branch call created
    nCalls,         \* create_branch calls started
    historyOut,     \* the get_branch_history call in progress: its limit, its result
    supplied,       \* the config of the update_config call that ran last
    lock,           \* the caller holding the Mutex around the service, or 0
    updating,       \* caller -> the config of its update_branch_config in progress
    \* ---- BranchGenerator::suggest_pattern, get_suggested_branches ----
    sugIn,          \* the generator's config and the arguments of the call
    sugOut,         \* the call that ran on sugIn, and what it returned
    \* ---- The Tauri commands over Mutex<GitService> ----
    gitLock,        \* the command holding the Mutex<GitService> guard, or "none"
    req             \* the read command invoked beside a clone: position, result

cloneVars == <<clonePc, cloneEnv, auth_attempts, tried_methods, lastCb,
               offered, attemptedAt, engineResult, cloneResult>>

genVars == <<genInput, genOut>>

sanVars == <<sanIn, sanOut>>

statusVars == <<statusIn, statusOut>>

repoVars == <<repo, repoOut>>

svcVars == <<config, system_info, branches, current, history, clock, calls,
             lastDone, engineNames, createdNames, nCalls, historyOut, supplied,
             lock, updating>>

sugVars == <<sugIn, sugOut>>

gitVars == <<gitLock, req>>

vars == <<cloneVars, genVars, sanVars, statusVars, repoVars, svcVars, sugVars,
          gitVars>>

\* What the steps of one part of the program leave alone.
nonCloneVars == <<genVars, sanVars, statusVars, repoVars, svcVars, sugVars,
    gitVars>>
nonGenVars == <<cloneVars, sanVars, statusVars, repoVars, svcVars, sugVars,
    gitVars>>
nonSanVars == <<cloneVars, genVars, statusVars, repoVars, svcVars, sugVars,
    gitVars>>
nonStatusVars == <<cloneVars, genVars, sanVars, repoVars, svcVars, sugVars,
    gitVars>>
nonRepoVars == <<cloneVars, genVars, sanVars, statusVars, svcVars, sugVars,
    gitVars>>
nonSvcVars == <<cloneVars, genVars, sanVars, statusVars, repoVars, sugVars,
    gitVars>>
nonSugVars == <<cloneVars, genVars, sanVars, statusVars, repoVars, svcVars,
    gitVars>>

None == "none"
\* No result yet.
Nil == [kind |-> "none"]

(***************************************************************************)
(* GitService::clone_repository                                            *)
(***************************************************************************)

\* git2::CredentialType bits the callback looks at.
SSH_KEY == "SSH_KEY"
USER_PASS_PLAINTEXT == "USER_PASS_PLAINTEXT"
CredentialTypes == {SSH_KEY, USER_PASS_PLAINTEXT}

\* The tags the callback puts in tried_methods.
StrategyTags == {"ssh_agent", "ssh_keys", "userpass"}

\* ssh_key_types, in the order of the array.
ssh_key_types == <<"id_ed25519", "id_rsa", "id_ecdsa">>
KeyNames == {ssh_key_types[i] : i \in 1..Len(ssh_key_types)}

\* The hard cap of the callback: attempt_num > 3 gives up.
MaxAuthAttempts == 3

TooManyAttempts == "Authentication failed after multiple attempts"
NoMethod == "No authentication method available"
UserpassError == "userpass_plaintext: string contains a NUL byte"
TransferError == "transfer failed"
ConnectError == "could not connect"

\* Destination paths a caller passes.
Paths == {"/tmp/a", "/tmp/b"}

\* The machines and arguments of a clone: the inline credentials (absent,
\* well-formed, or not constructible), whether Cred::ssh_key_from_agent
\* constructs, the private keys found in ~/.ssh and those of them for which
\* Cred::ssh_key constructs.
CloneEnvs ==
    { e \in [creds : {"absent", "good", "bad"}, agentOk : BOOLEAN,
             keysOnDisk : SUBSET KeyNames, keysOk : SUBSET KeyNames, path : Paths] :
        e.keysOk \subseteq e.keysOnDisk }

\* No clone running, and no invocation of the callback yet.
NoEnv == [creds |-> "absent", agentOk |-> FALSE, keysOnDisk |-> {}, keysOk |-> {},
          path |-> None]
NoCb == [n |-> 0, allowed |-> {}, triedBefore |-> {}, attempted |-> <<>>,
         keyLoop |-> <<>>, result |-> Nil]

Ok(v) == [kind |-> "ok", value |-> v]
Err(e) == [kind |-> "err", error |-> e]

KeyLoopMutNoStop(i, env) ==
    SelectSeq(SubSeq(ssh_key_types, i, Len(ssh_key_types)),
              LAMBDA k : k \in env.keysOnDisk)

\* The key pairs the loop over ssh_key_types reaches, in order: every pair whose
\* private key exists, up to and including the first that constructs.
RECURSIVE KeyLoop(_, _)
KeyLoop(i, env) ==
    IF i > Len(ssh_key_types) THEN <<>>
    ELSE LET k == ssh_key_types[i] IN
         IF k \in env.keysOnDisk
         THEN IF k \in env.keysOk THEN <<k>>
              ELSE <<k>> \o KeyLoop(i + 1, env)
         ELSE KeyLoop(i + 1, env)

\* The body of the credentials closure after the attempt counter: the strategies
\* it attempts (in order), the key pairs it constructs, the tried set it leaves
\* and what it returns.
StrategySelectionMutRetryKeys(attempt_num, tried, allowed, env) ==
    LET agentRuns == SSH_KEY \in allowed /\ attempt_num = 1 /\ "ssh_agent" \notin tried
        tried1 == IF agentRuns THEN tried \cup {"ssh_agent"} ELSE tried
        agentCred == agentRuns /\ env.agentOk
        keysRun == SSH_KEY \in allowed /\ ~agentCred
        tried2 == IF keysRun THEN tried1 \cup {"ssh_keys"} ELSE tried1
        loop == IF keysRun THEN KeyLoop(1, env) ELSE <<>>
        keyCred == loop # <<>> /\ loop[Len(loop)] \in env.keysOk
        upRuns == USER_PASS_PLAINTEXT \in allowed /\ ~agentCred /\ ~keyCred
                  /\ "userpass" \notin tried2
        tried3 == IF upRuns THEN tried2 \cup {"userpass"} ELSE tried2
    IN  [ attempted |-> (IF agentRuns THEN <<"ssh_agent">> ELSE <<>>)
                        \o (IF keysRun THEN <<"ssh_keys">> ELSE <<>>)
                        \o (IF upRuns THEN <<"userpass">> ELSE <<>>),
          keyLoop |-> loop,
          tried |-> tried3,
          result |->
            IF agentCred THEN Ok([from |-> "ssh_agent", key |-> None])
            ELSE IF keyCred THEN Ok([from |-> "ssh_keys", key |-> loop[Len(loop)]])
            ELSE IF upRuns /\ env.creds = "good" THEN Ok([from |-> "userpass", key |-> None])
            ELSE IF upRuns /\ env.creds = "bad" THEN Err(UserpassError)
            ELSE Err(NoMethod) ]

StrategySelection(attempt_num, tried, allowed, env) ==
    LET agentRuns == SSH_KEY \in allowed /\ attempt_num = 1 /\ "ssh_agent" \notin tried
        tried1 == IF agentRuns THEN tried \cup {"ssh_agent"} ELSE tried
        agentCred == agentRuns /\ env.agentOk
        keysRun == SSH_KEY \in allowed /\ ~agentCred /\ "ssh_keys" \notin tried1
        tried2 == IF keysRun THEN tried1 \cup {"ssh_keys"} ELSE tried1
        loop == IF keysRun THEN KeyLoop(1, env) ELSE <<>>
        keyCred == loop # <<>> /\ loop[Len(loop)] \in env.keysOk
        upRuns == USER_PASS_PLAINTEXT \in allowed /\ ~agentCred /\ ~keyCred
                  /\ "userpass" \notin tried2
        tried3 == IF upRuns THEN tried2 \cup {"userpass"} ELSE tried2
    IN  [ attempted |-> (IF agentRuns THEN <<"ssh_agent">> ELSE <<>>)
                        \o (IF keysRun THEN <<"ssh_keys">> ELSE <<>>)
                        \o (IF upRuns THEN <<"userpass">> ELSE <<>>),
          keyLoop |-> loop,
          tried |-> tried3,
          result |->
            IF agentCred THEN Ok([from |-> "ssh_agent", key |-> None])
            ELSE IF keyCred THEN Ok([from |-> "ssh_keys", key |-> loop[Len(loop)]])
            ELSE IF upRuns /\ env.creds = "good" THEN Ok([from |-> "userpass", key |-> None])
            ELSE IF upRuns /\ env.creds = "bad" THEN Err(UserpassError)
            ELSE Err(NoMethod) ]

\* The guard on the attempt counter: past the cap the closure returns at once.
AttemptAllowedMutNoCap(attempt_num) == TRUE

AttemptAllowed(attempt_num) == ~(attempt_num > MaxAuthAttempts)

\* One invocation of the credentials closure, the counter already incremented.
credentials(attempt_num, tried, allowed, env) ==
    IF ~AttemptAllowed(attempt_num)
    THEN [attempted |-> <<>>, keyLoop |-> <<>>, tried |-> tried,
          result |-> Err(TooManyAttempts)]
    ELSE StrategySelection(attempt_num, tried, allowed, env)

CloneInit ==
    /\ clonePc = "idle"
    /\ cloneEnv = NoEnv
    /\ auth_attempts = 0
    /\ tried_methods = {}
    /\ lastCb = NoCb
    /\ offered = <<>>
    /\ attemptedAt = [t \in StrategyTags |-> {}]
    /\ engineResult = Nil
    /\ cloneResult = Nil

\* clone_repository is called: fresh counter, fresh tried set, builder.clone starts.
CloneStart(env) ==
    /\ clonePc = "idle"
    /\ clonePc' = "connect"
    /\ cloneEnv' = env
    /\ auth_attempts' = 0
    /\ tried_methods' = {}
    /\ lastCb' = NoCb
    /\ offered' = <<>>
    /\ attemptedAt' = [t \in StrategyTags |-> {}]
    /\ engineResult' = Nil
    /\ cloneResult' = Nil

\* The engine fails before it asks for a credential (bad URL, existing destination).
EngineConnectFail ==
    /\ clonePc = "connect"
    /\ clonePc' = "returned"
    /\ engineResult' = Err(ConnectError)
    /\ UNCHANGED <<cloneEnv, auth_attempts, tried_methods, lastCb, offered,
                   attemptedAt, cloneResult>>

\* The remote asks for no credential at all.
EngineNoAuth ==
    /\ clonePc = "connect"
    /\ clonePc' = "transfer"
    /\ UNCHANGED <<cloneEnv, auth_attempts, tried_methods, lastCb, offered,
                   attemptedAt, engineResult, cloneResult>>

\* The engine invokes the credentials callback, advertising `allowed`. A
\* credential goes to the remote; an error ends builder.clone.
CredentialsCallback(allowed) ==
    /\ clonePc \in {"connect", "challenge"}
    /\ LET attempt_num == auth_attempts + 1
           r == credentials(attempt_num, tried_methods, allowed, cloneEnv)
       IN  /\ auth_attempts' = attempt_num
           /\ tried_methods' = r.tried
           /\ lastCb' = [n |-> attempt_num, allowed |-> allowed,
                         triedBefore |-> tried_methods,
                         attempted |-> r.attempted, keyLoop |-> r.keyLoop,
                         result |-> r.result]
           /\ attemptedAt' = [t \in StrategyTags |->
                 IF \E i \in 1..Len(r.attempted) : r.attempted[i] = t
                 THEN attemptedAt[t] \cup {attempt_num} ELSE attemptedAt[t]]
           /\ IF r.result.kind = "ok"
              THEN /\ offered' = Append(offered, r.result.value)
                   /\ clonePc' = "offered"
                   /\ UNCHANGED engineResult
              ELSE /\ UNCHANGED offered
                   /\ clonePc' = "returned"
                   /\ engineResult' = Err(r.result.error)
    /\ UNCHANGED <<cloneEnv, cloneResult>>

\* The remote takes the credential it was offered.
RemoteAccept ==
    /\ clonePc = "offered"
    /\ clonePc' = "transfer"
    /\ UNCHANGED <<cloneEnv, auth_attempts, tried_methods, lastCb, offered,
                   attemptedAt, engineResult, cloneResult>>

\* The remote rejects it: the engine will ask the callback again.
RemoteReject ==
    /\ clonePc = "offered"
    /\ clonePc' = "challenge"
    /\ UNCHANGED <<cloneEnv, auth_attempts, tried_methods, lastCb, offered,
                   attemptedAt, engineResult, cloneResult>>

\* The transfer after authentication ends, well or not.
TransferEnds(ok) ==
    /\ clonePc = "transfer"
    /\ clonePc' = "returned"
    /\ engineResult' = IF ok THEN Ok("repo") ELSE Err(TransferError)
    /\ UNCHANGED <<cloneEnv, auth_attempts, tried_methods, lastCb, offered,
                   attemptedAt, cloneResult>>

\* The match on builder.clone's result.
ResultMappingMutRaise(res, path) ==
    IF res.kind = "ok"
    THEN Ok([success |-> TRUE, path |-> path,
             message |-> <<"Repository cloned successfully">>])
    ELSE Err(res.error)

ResultMapping(res, path) ==
    IF res.kind = "ok"
    THEN Ok([success |-> TRUE, path |-> path,
             message |-> <<"Repository cloned successfully">>])
    ELSE Ok([success |-> FALSE, path |-> path,
             message |-> <<"Failed to clone repository: ", res.error>>])

CloneReturn ==
    /\ clonePc = "returned"
    /\ clonePc' = "done"
    /\ cloneResult' = ResultMapping(engineResult, cloneEnv.path)
    /\ UNCHANGED <<cloneEnv, auth_attempts, tried_methods, lastCb, offered,
                   attemptedAt, engineResult>>

\* The caller takes the result; the counter, the tried set and the callbacks
\* of the call are dropped, and the service (a unit struct) is ready again.
CloneDone ==
    /\ clonePc = "done"
    /\ clonePc' = "idle"
    /\ cloneEnv' = NoEnv
    /\ auth_attempts' = 0
    /\ tried_methods' = {}
    /\ lastCb' = NoCb
    /\ offered' = <<>>
    /\ attemptedAt' = [t \in StrategyTags |-> {}]
    /\ engineResult' = Nil
    /\ cloneResult' = Nil

CloneNext ==
    \/ \E env \in CloneEnvs : CloneStart(env)
    \/ EngineConnectFail
    \/ EngineNoAuth
    \/ \E allowed \in SUBSET CredentialTypes : CredentialsCallback(allowed)
    \/ RemoteAccept
    \/ RemoteReject
    \/ \E ok \in BOOLEAN : TransferEnds(ok)
    \/ CloneReturn
    \/ CloneDone


(***************************************************************************)
(* GitService::get_repository_status                                       *)
(***************************************************************************)

\* git2::Status: the flags of a status entry.
IndexFlags == {"INDEX_NEW", "INDEX_MODIFIED", "INDEX_DELETED", "INDEX_RENAMED",
               "INDEX_TYPECHANGE"}
WtFlags == {"WT_NEW", "WT_MODIFIED", "WT_DELETED", "WT_TYPECHANGE", "WT_RENAMED"}
CONFLICTED == "CONFLICTED"

\* The flags one entry of repo.statuses(..) can carry with include_ignored
\* off: at most one change on the index side and one on the working-tree
\* side, or a conflict; an unchanged path has no entry.
EntryFlags ==
    ({i \cup w : i \in {{}} \cup {{f} : f \in IndexFlags},
                 w \in {{}} \cup {{f} : f \in WtFlags}} \ {{}})
        \cup {{CONFLICTED}}

StatusPaths == <<"a.txt", "b.txt">>

\* The entries of repo.statuses(..), in path order.
StatusEntries ==
    {<<>>}
    \cup {<<[path |-> StatusPaths[i], flags |-> f]>> : i \in 1..2, f \in EntryFlags}
    \cup {<<[path |-> StatusPaths[1], flags |-> f], [path |-> StatusPaths[2], flags |-> g]>> :
              f \in EntryFlags, g \in EntryFlags}

\* What Repository::open, repo.head() and repo.statuses(..) find at repo_path.
\* head: "unborn" (no commit yet), "branch" or "detached".
StatusInputs ==
    { r \in [ openable : BOOLEAN, head : {"unborn", "branch", "detached"},
              branch : {"main"}, entries : StatusEntries ] :
        ~r.openable => r.head = "unborn" /\ r.entries = <<>> }

NoStatusInput == [openable |-> FALSE, head |-> "unborn", branch |-> "main", entries |-> <<>>]

\* The paths of the entries that carry one of `flags`, in entry order.
PathsWith(entries, flags) ==
    LET hits == SelectSeq(entries, LAMBDA e : e.flags \cap flags # {})
    IN  [i \in 1..Len(hits) |-> hits[i].path]

\* GitService::get_repository_status
get_repository_statusMutExclusive(r) ==
    IF ~r.openable THEN Err("could not find repository")
    ELSE IF r.head = "unborn" THEN Err("reference 'refs/heads/main' not found")
    ELSE LET staged_files == PathsWith(r.entries, IndexFlags)
             unstaged == SelectSeq(r.entries, LAMBDA e : e.flags \cap IndexFlags = {})
             modified_files == PathsWith(unstaged, WtFlags \ {"WT_NEW"})
             untracked_files == PathsWith(unstaged, {"WT_NEW"})
         IN  Ok([ current_branch |-> IF r.head = "branch" THEN r.branch ELSE "HEAD",
                  is_clean |-> staged_files = <<>> /\ modified_files = <<>>
                                  /\ untracked_files = <<>>,
                  staged_files |-> staged_files,
                  modified_files |-> modified_files,
                  untracked_files |-> untracked_files,
                  ahead |-> 0, behind |-> 0 ])

get_repository_statusMutUnbornOk(r) ==
    IF ~r.openable THEN Err("could not find repository")
    ELSE LET staged_files == PathsWith(r.entries, IndexFlags)
             modified_files == PathsWith(r.entries, WtFlags \ {"WT_NEW"})
             untracked_files == PathsWith(r.entries, {"WT_NEW"})
         IN  Ok([ current_branch |-> IF r.head = "branch" THEN r.branch ELSE "HEAD",
                  is_clean |-> staged_files = <<>> /\ modified_files = <<>>
                                  /\ untracked_files = <<>>,
                  staged_files |-> staged_files,
                  modified_files |-> modified_files,
                  untracked_files |-> untracked_files,
                  ahead |-> 0, behind |-> 0 ])

get_repository_status(r) ==
    IF ~r.openable THEN Err("could not find repository")
    ELSE IF r.head = "unborn" THEN Err("reference 'refs/heads/main' not found")
    ELSE LET staged_files == PathsWith(r.entries, IndexFlags)
             modified_files == PathsWith(r.entries, WtFlags \ {"WT_NEW"})
             untracked_files == PathsWith(r.entries, {"WT_NEW"})
         IN  Ok([ current_branch |-> IF r.head = "branch" THEN r.branch ELSE "HEAD",
                  is_clean |-> staged_files = <<>> /\ modified_files = <<>>
                                  /\ untracked_files = <<>>,
                  staged_files |-> staged_files,
                  modified_files |-> modified_files,
                  untracked_files |-> untracked_files,
                  ahead |-> 0, behind |-> 0 ])

\* get_repository_status not under test.
StatusIdle == statusIn = NoStatusInput /\ statusOut = Nil

\* get_repository_status is called on the input.
GetRepositoryStatus ==
    /\ statusOut = Nil
    /\ statusOut' = get_repository_status(statusIn)
    /\ UNCHANGED statusIn

StatusNext == GetRepositoryStatus

(***************************************************************************)
(* GitService on one repository: initialize_repository, add_all_changes    *)
(* and commit_changes, with the user editing the one file of the working   *)
(* directory. A tree is the version of that file it holds, 0 for no file.  *)
(***************************************************************************)

\* How many versions the file goes through.
MaxVersion == 2
\* How many commits are made.
MaxCommits == 3

RepoPath == "/tmp/a"

\* CloneResult
CloneResultOf(success, message) ==
    [success |-> success, path |-> RepoPath, message |-> message]

\* No repository at repo_path yet. head is the commit refs/heads/main points
\* to, 0 while the branch is unborn.
NoRepository ==
    [initialized |-> FALSE, commits |-> <<>>, head |-> 0, index |-> 0, worktree |-> 0]

\* No GitService call has returned.
NoRepoOut ==
    [op |-> "none", nothing_staged |-> FALSE, commits_before |-> 0,
     commits_after |-> 0, result |-> Nil]

RepoInit == repo = NoRepository /\ repoOut = NoRepoOut

\* The call `op` returned `result`.
RepoOut(op, before, after, result) ==
    [ op |-> op,
      nothing_staged |-> before.head # 0 /\ before.commits[before.head].tree = before.index,
      commits_before |-> Len(before.commits),
      commits_after |-> Len(after.commits),
      result |-> result ]

\* GitService::initialize_repository: Repository::init_opts with
\* initial_head("main"); on an existing repository it changes nothing.
InitializeRepository(ok) ==
    LET after == IF ok THEN [repo EXCEPT !.initialized = TRUE] ELSE repo IN
    /\ repo' = after
    /\ repoOut' = RepoOut("init", repo, after,
                    IF ok THEN Ok(CloneResultOf(TRUE, "Repository initialized successfully"))
                    ELSE Ok(CloneResultOf(FALSE, "Failed to initialize repository: {}")))

\* The user writes version v of the file, or removes it (v = 0).
WriteFile(v) ==
    /\ v # repo.worktree
    /\ repo' = [repo EXCEPT !.worktree = v]
    /\ UNCHANGED repoOut

\* index.add_all(["*"]): every file of the working directory is added or
\* updated in the index; a file that is gone keeps its entry.
add_all(r) == [r EXCEPT !.index = IF r.worktree # 0 THEN r.worktree ELSE r.index]

\* GitService::add_all_changes
AddAllChanges ==
    LET after == IF repo.initialized THEN add_all(repo) ELSE repo IN
    /\ repo' = after
    /\ repoOut' = RepoOut("add", repo, after,
                    IF repo.initialized
                    THEN Ok(CloneResultOf(TRUE, "Added all changes to staging area"))
                    ELSE Err("could not find repository"))

\* repo.commit(Some("HEAD"), .., &tree, parents): a commit of the index's tree
\* on top of the HEAD commit, if there is one, and HEAD moved to it.
commitMutNoParent(r) ==
    [r EXCEPT !.commits = Append(@, [tree |-> r.index, parents |-> <<>>]),
              !.head = Len(r.commits) + 1]

commit(r) ==
    [r EXCEPT !.commits = Append(@, [tree |-> r.index,
                                     parents |-> IF r.head # 0 THEN <<r.head>> ELSE <<>>]),
              !.head = Len(r.commits) + 1]

\* GitService::commit_changes. committed = FALSE is repo.commit returning an
\* error.
CommitChanges(committed) ==
    /\ Len(repo.commits) < MaxCommits
    /\ LET after == IF repo.initialized /\ committed THEN commit(repo) ELSE repo IN
        /\ repo' = after
        /\ repoOut' = RepoOut("commit", repo, after,
                        IF ~repo.initialized THEN Err("could not find repository")
                        ELSE IF after # repo
                             THEN Ok(CloneResultOf(TRUE, "Committed changes: {}"))
                             ELSE Ok(CloneResultOf(FALSE, "Failed to commit: {}")))

\* repo.head().shorthand(), "" when HEAD cannot be resolved: initial_head is
\* "main" and no GitService call moves HEAD to another branch.
current_branch_name(r) == IF r.head # 0 THEN "main" ELSE ""

\* repo.branches(Some(BranchType::Local)): the refs under refs/heads, of which
\* an unborn branch has none.
local_branches(r) == IF r.head # 0 THEN <<"main">> ELSE <<>>

\* GitService::get_branches
get_branchesMutNoneCurrent(r) ==
    IF ~r.initialized THEN Err("could not find repository")
    ELSE Ok([i \in 1..Len(local_branches(r)) |->
                [ name |-> local_branches(r)[i],
                  is_current |-> FALSE,
                  is_remote |-> FALSE,
                  last_commit |-> r.head ]])

get_branches(r) ==
    IF ~r.initialized THEN Err("could not find repository")
    ELSE Ok([i \in 1..Len(local_branches(r)) |->
                [ name |-> local_branches(r)[i],
                  is_current |-> local_branches(r)[i] = current_branch_name(r),
                  is_remote |-> FALSE,
                  last_commit |-> r.head ]])

GetBranches ==
    /\ repoOut' = RepoOut("branches", repo, repo, get_branches(repo))
    /\ UNCHANGED repo

RepoNext ==
    \/ GetBranches /\ UNCHANGED nonRepoVars
    \/ \E ok \in BOOLEAN : InitializeRepository(ok) /\ UNCHANGED nonRepoVars
    \/ \E v \in 0..MaxVersion : WriteFile(v) /\ UNCHANGED nonRepoVars
    \/ AddAllChanges /\ UNCHANGED nonRepoVars
    \/ \E committed \in BOOLEAN : CommitChanges(committed) /\ UNCHANGED nonRepoVars

(***************************************************************************)
(* Strings: a String is a sequence of characters, a character a            *)
(* one-character string. len, truncate and the comparison with             *)
(* max_branch_name_length count UTF-8 bytes, as Rust's do.                 *)
(***************************************************************************)

LowerLetters == {"a", "b", "c", "d", "e", "f", "g", "h", "i", "j", "k", "l", "m", "n", "o", "p", "q", "r", "s", "t", "u", "v", "w", "x", "y", "z"}
UpperLetters == {"A", "B", "C", "D", "E", "F", "G", "H", "I", "J", "K", "L", "M", "N", "O", "P", "Q", "R", "S", "T", "U", "V", "W", "X", "Y", "Z"}
Digits == {"0", "1", "2", "3", "4", "5", "6", "7", "8", "9"}
\* Letters outside ASCII, two bytes each in UTF-8.
WideLower == {"é"}
WideUpper == {"É"}

UpperSeq == <<"A", "B", "C", "D", "E", "F", "G", "H", "I", "J", "K", "L", "M", "N", "O", "P", "Q", "R", "S", "T", "U", "V", "W", "X", "Y", "Z", "É">>
LowerSeq == <<"a", "b", "c", "d", "e", "f", "g", "h", "i", "j", "k", "l", "m", "n", "o", "p", "q", "r", "s", "t", "u", "v", "w", "x", "y", "z", "é">>

\* char::is_alphanumeric
is_alphanumeric(c) ==
    c \in LowerLetters \cup UpperLetters \cup Digits \cup WideLower \cup WideUpper

\* str::to_lowercase, one character at a time
CharToLower(c) ==
    IF \E i \in 1..Len(UpperSeq) : UpperSeq[i] = c
    THEN LowerSeq[CHOOSE i \in 1..Len(UpperSeq) : UpperSeq[i] = c]
    ELSE c

to_lowercase(s) == [i \in 1..Len(s) |-> CharToLower(s[i])]

\* char::len_utf8
len_utf8(c) == IF c \in WideLower \cup WideUpper THEN 2 ELSE 1

\* str::len: the length in bytes
RECURSIVE len(_)
len(s) == IF s = <<>> THEN 0 ELSE len_utf8(s[1]) + len(Tail(s))

\* s starts with the string p
StartsWith(s, p) == Len(s) >= Len(p) /\ SubSeq(s, 1, Len(p)) = p

\* str::contains(&str)
contains(s, p) == \E i \in 1..(Len(s) - Len(p) + 1) : SubSeq(s, i, i + Len(p) - 1) = p

\* str::replace: every non-overlapping match of `from`, left to right
RECURSIVE replace(_, _, _)
replace(s, from, to) ==
    IF Len(s) < Len(from) THEN s
    ELSE IF StartsWith(s, from)
         THEN to \o replace(SubSeq(s, Len(from) + 1, Len(s)), from, to)
         ELSE <<s[1]>> \o replace(Tail(s), from, to)

\* str::split(char): the pieces between the separators, empty pieces included
RECURSIVE split(_, _)
split(s, sep) ==
    IF \A i \in 1..Len(s) : s[i] # sep THEN <<s>>
    ELSE LET k == CHOOSE i \in 1..Len(s) :
                     s[i] = sep /\ \A j \in 1..(i - 1) : s[j] # sep
         IN  <<SubSeq(s, 1, k - 1)>> \o split(SubSeq(s, k + 1, Len(s)), sep)

\* [&str]::join(&str)
RECURSIVE join(_, _)
join(parts, sep) ==
    IF parts = <<>> THEN <<>>
    ELSE IF Len(parts) = 1 THEN parts[1]
    ELSE parts[1] \o sep \o join(Tail(parts), sep)

\* str::trim_end_matches(char)
RECURSIVE trim_end_matches(_, _)
trim_end_matches(s, c) ==
    IF s # <<>> /\ s[Len(s)] = c THEN trim_end_matches(SubSeq(s, 1, Len(s) - 1), c)
    ELSE s

\* The longest prefix of s of at most n bytes.
RECURSIVE BytePrefix(_, _)
BytePrefix(s, n) ==
    IF s = <<>> \/ len_utf8(s[1]) > n THEN <<>>
    ELSE <<s[1]>> \o BytePrefix(Tail(s), n - len_utf8(s[1]))

\* String::truncate(new_len): no effect when new_len >= len; panics when
\* new_len is not on a character boundary.
truncate(s, new_len) ==
    IF new_len >= len(s) THEN [kind |-> "ok", value |-> s]
    ELSE IF len(BytePrefix(s, new_len)) = new_len
         THEN [kind |-> "ok", value |-> BytePrefix(s, new_len)]
         ELSE [kind |-> "panic"]

(***************************************************************************)
(* BranchGenerator (models/git.rs)                                         *)
(***************************************************************************)

FeatureTypes == {"Feature", "Bugfix", "Hotfix", "Experiment", "Refactor", "Documentation"}

\* impl Display for FeatureType
FeatureToString(ft) ==
    CASE ft = "Feature" -> <<"f", "e", "a", "t", "u", "r", "e">>
      [] ft = "Bugfix" -> <<"b", "u", "g", "f", "i", "x">>
      [] ft = "Hotfix" -> <<"h", "o", "t", "f", "i", "x">>
      [] ft = "Experiment" -> <<"e", "x", "p", "e", "r", "i", "m", "e", "n", "t">>
      [] ft = "Refactor" -> <<"r", "e", "f", "a", "c", "t", "o", "r">>
      [] ft = "Documentation" -> <<"d", "o", "c", "s">>

\* The placeholders of branch_prefix_pattern.
PhWorkspace == <<"{", "w", "o", "r", "k", "s", "p", "a", "c", "e", "}">>
PhUsername == <<"{", "u", "s", "e", "r", "n", "a", "m", "e", "}">>
PhMachine == <<"{", "m", "a", "c", "h", "i", "n", "e", "}">>
PhFeature == <<"{", "f", "e", "a", "t", "u", "r", "e", "}">>

\* BranchConfig::default().branch_prefix_pattern
DefaultTemplate ==
    PhWorkspace \o <<"/">> \o PhUsername \o <<"-">> \o PhMachine \o <<"/">> \o PhFeature

\* BranchConfig::default().max_branch_name_length
DefaultMaxLength == 100

\* Option<String>
Some(s) == [some |-> TRUE, value |-> s]
NoString == [some |-> FALSE, value |-> <<>>]

\* BranchGenerator::sanitize_name
sanitize_nameMutMapLast(name) ==
    LET lower == to_lowercase(name)
        pieces == SelectSeq(split(lower, "-"), LAMBDA p : p # <<>>)
        joined == join(pieces, <<"-">>)
    IN  [i \in 1..Len(joined) |->
            IF is_alphanumeric(joined[i]) \/ joined[i] = "-" \/ joined[i] = "_"
            THEN joined[i] ELSE "-"]

sanitize_name(name) ==
    LET lower == to_lowercase(name)
        mapped == [i \in 1..Len(lower) |->
                     IF is_alphanumeric(lower[i]) \/ lower[i] = "-" \/ lower[i] = "_"
                     THEN lower[i] ELSE "-"]
        pieces == SelectSeq(split(mapped, "-"), LAMBDA p : p # <<>>)
    IN  join(pieces, <<"-">>)

forbidden_chars == {"~", "^", ":", "?", "*", "[", "\\", " "}

\* BranchGenerator::validate_branch_name
validate_branch_nameMutNoEndCheck(name) ==
    IF name = <<>> THEN Err("Branch name cannot be empty")
    ELSE IF name[1] = "-"
         THEN Err("Branch name cannot start or end with hyphen")
    ELSE IF contains(name, <<".", ".">>) \/ contains(name, <<"/", "/">>)
         THEN Err("Branch name cannot contain consecutive dots or slashes")
    ELSE IF \E i \in 1..Len(name) : name[i] \in forbidden_chars
         THEN Err("Branch name contains forbidden characters")
    ELSE Ok(<<>>)

validate_branch_name(name) ==
    IF name = <<>> THEN Err("Branch name cannot be empty")
    ELSE IF name[1] = "-" \/ name[Len(name)] = "-"
         THEN Err("Branch name cannot start or end with hyphen")
    ELSE IF contains(name, <<".", ".">>) \/ contains(name, <<"/", "/">>)
         THEN Err("Branch name cannot contain consecutive dots or slashes")
    ELSE IF \E i \in 1..Len(name) : name[i] \in forbidden_chars
         THEN Err("Branch name contains forbidden characters")
    ELSE Ok(<<>>)

\* The template filled in, with the description appended.
SubstitutedMutAlwaysSuffix(cfg, pattern) ==
    LET n1 == replace(cfg.branch_prefix_pattern, PhWorkspace,
                      sanitize_name(pattern.workspace))
        n2 == replace(n1, PhUsername, sanitize_name(pattern.username))
        n3 == replace(n2, PhMachine, sanitize_name(pattern.machine))
        n4 == replace(n3, PhFeature, FeatureToString(pattern.feature_type))
        sanitized_desc == sanitize_name(pattern.description.value)
    IN  IF pattern.description.some
        THEN n4 \o <<"-">> \o sanitized_desc
        ELSE n4

Substituted(cfg, pattern) ==
    LET n1 == replace(cfg.branch_prefix_pattern, PhWorkspace,
                      sanitize_name(pattern.workspace))
        n2 == replace(n1, PhUsername, sanitize_name(pattern.username))
        n3 == replace(n2, PhMachine, sanitize_name(pattern.machine))
        n4 == replace(n3, PhFeature, FeatureToString(pattern.feature_type))
        sanitized_desc == sanitize_name(pattern.description.value)
    IN  IF pattern.description.some /\ sanitized_desc # <<>>
        THEN n4 \o <<"-">> \o sanitized_desc
        ELSE n4

\* The length limit: truncate, then remove trailing hyphens.
LengthLimitMutNoTrim(branch_name, max_branch_name_length) ==
    IF len(branch_name) > max_branch_name_length
    THEN truncate(branch_name, max_branch_name_length)
    ELSE Ok(branch_name)

LengthLimit(branch_name, max_branch_name_length) ==
    IF len(branch_name) > max_branch_name_length
    THEN LET t == truncate(branch_name, max_branch_name_length)
         IN  IF t.kind = "panic" THEN t
             ELSE Ok(trim_end_matches(t.value, "-"))
    ELSE Ok(branch_name)

\* BranchGenerator::generate_branch_name: Ok(name), Err(message), or a panic
\* of String::truncate.
generate_branch_nameMutNoValidate(cfg, pattern) ==
    LengthLimit(Substituted(cfg, pattern), cfg.max_branch_name_length)

generate_branch_name(cfg, pattern) ==
    LET limited == LengthLimit(Substituted(cfg, pattern),
                               cfg.max_branch_name_length)
    IN  IF limited.kind = "panic" THEN limited
        ELSE LET v == validate_branch_name(limited.value)
             IN  IF v.kind = "err" THEN v ELSE Ok(limited.value)

(***************************************************************************)
(* GitBranchService (services/git_branch_service.rs)                       *)
(***************************************************************************)

\* How many create_branch calls a behaviour starts.
MaxCalls == 2

\* The callers of the service; Spec runs one, so its calls follow one another.
Callers == {1, 2}

Main == <<"m", "a", "i", "n">>
Dev == <<"d", "e", "v">>

\* BranchConfig::default(), and a config update_config may install.
DefaultConfig ==
    [ auto_create_branches |-> TRUE,
      default_feature_type |-> "Feature",
      branch_prefix_pattern |-> DefaultTemplate,
      max_branch_name_length |-> DefaultMaxLength,
      allowed_feature_types |-> <<"Feature", "Bugfix", "Hotfix", "Experiment",
                                  "Refactor", "Documentation">> ]

ShortConfig ==
    [ auto_create_branches |-> FALSE,
      default_feature_type |-> "Documentation",
      branch_prefix_pattern |-> PhWorkspace \o <<"-">> \o PhFeature,
      max_branch_name_length |-> 3,
      allowed_feature_types |-> <<"Documentation">> ]

Configs == {DefaultConfig, ShortConfig}

\* detect_system_info() on the machine of the model.
DetectedSystemInfo ==
    [username |-> <<"j", ".", "D">>, machine_name |-> <<"M", "-", "p">>,
     os_type |-> "Linux"]

\* Option<FeatureType>
SomeFeature(ft) == [some |-> TRUE, value |-> ft]
NoFeature == [some |-> FALSE, value |-> "none"]

\* BranchGenerator::suggest_pattern
suggest_patternMutAlwaysDefault(generator, workspace_name, feature_type) ==
    [ workspace |-> workspace_name,
      username |-> generator.system_info.username,
      machine |-> generator.system_info.machine_name,
      feature_type |-> generator.config.default_feature_type,
      description |-> NoString ]

suggest_pattern(generator, workspace_name, feature_type) ==
    [ workspace |-> workspace_name,
      username |-> generator.system_info.username,
      machine |-> generator.system_info.machine_name,
      feature_type |-> IF feature_type.some THEN feature_type.value
                       ELSE generator.config.default_feature_type,
      description |-> NoString ]

\* The loop of GitBranchService::get_suggested_branches over
\* config.allowed_feature_types: a type whose name is generated is pushed
\* with it, a type whose generation returns Err is passed over, and a panic
\* of generate_branch_name unwinds through the loop.
RECURSIVE SuggestionsFor(_, _, _)
SuggestionsFor(generator, workspace_name, types) ==
    IF types = <<>> THEN Ok(<<>>)
    ELSE LET feature_type == Head(types)
             pattern == suggest_pattern(generator, workspace_name,
                                        SomeFeature(feature_type))
             generated == generate_branch_name(generator.config, pattern)
             rest == SuggestionsFor(generator, workspace_name, Tail(types))
         IN  IF generated.kind = "panic" THEN generated
             ELSE IF rest.kind = "panic" THEN rest
             ELSE IF generated.kind = "ok"
                  THEN Ok(<<[feature_type |-> feature_type,
                             name |-> generated.value]>> \o rest.value)
                  ELSE rest

\* GitBranchService::get_suggested_branches
get_suggested_branches(generator, workspace_name) ==
    SuggestionsFor(generator, workspace_name,
                   generator.config.allowed_feature_types)

\* BranchGenerator::suggest_pattern with a description put in, as
\* quick_create_feature_branch builds its pattern.
PatternFor(workspace, description) ==
    [ workspace |-> workspace,
      username |-> DetectedSystemInfo.username,
      machine |-> DetectedSystemInfo.machine_name,
      feature_type |-> "Feature",
      description |-> description ]

\* The patterns callers ask branches for.
SvcPatterns ==
    { PatternFor(<<"a">>, NoString),
      PatternFor(<<"-">>, Some(<<"x", " ", "y">>)) }

\* BranchCreateRequest
Requests ==
    { r \in [ pattern : SvcPatterns,
              base_branch : {NoString, Some(Dev)},
              auto_switch : BOOLEAN ] :
        r.base_branch.some => ~r.auto_switch }

NoRequest ==
    [ pattern |-> [workspace |-> <<>>, username |-> <<>>, machine |-> <<>>,
                   feature_type |-> "Feature", description |-> NoString],
      base_branch |-> NoString, auto_switch |-> FALSE ]

\* The messages of BranchCreateResult: the format string and its arguments.
Message(format, branch_name, base_branch) ==
    [format |-> format, branch_name |-> branch_name, base_branch |-> base_branch]

AlreadyExists(branch_name) == Message("Branch '{}' already exists", branch_name, <<>>)
FailedToCreate(branch_name) == Message("Failed to create branch: {}", branch_name, <<>>)
CreatedAndSwitched(branch_name) ==
    Message("Created and switched to branch '{}'", branch_name, <<>>)
CreatedStayed(branch_name, base_branch) ==
    Message("Created branch '{}' (stayed on '{}')", branch_name, base_branch)

BranchCreateResult(branch_name, created, switched, message) ==
    [branch_name |-> branch_name, created |-> created, switched |-> switched,
     message |-> message]

\* A caller with no call in flight.
IdleCall ==
    [ pc |-> "idle", request |-> NoRequest,
      generator |-> [config |-> DefaultConfig, system_info |-> DetectedSystemInfo],
      generated |-> Nil,
      branch_name |-> <<>>, base_branch |-> <<>>,
      switched |-> FALSE, message |-> Message("", <<>>, <<>>),
      result |-> Nil,
      engineCalls |-> 0, checkouts |-> 0, createOk |-> FALSE,
      startBranches |-> {}, startCurrent |-> <<>>, startHistory |-> 0 ]

\* git branch --list <name> prints the branch when it exists.
branch_existsMutNever(repoBranches, branch_name) == FALSE

branch_exists(repoBranches, branch_name) == branch_name \in repoBranches

\* serde_json::to_string(pattern): the JSON object of the pattern's fields.
to_json(pattern) ==
    [ workspace |-> pattern.workspace, username |-> pattern.username,
      machine |-> pattern.machine,
      feature_type |-> FeatureToString(pattern.feature_type),
      description |-> pattern.description ]

\* serde_json::from_str::<BranchPattern>: Ok(pattern), or Err for a
\* feature_type that is no variant's name.
from_json(json) ==
    IF \E ft \in FeatureTypes : FeatureToString(ft) = json.feature_type
    THEN Ok([ workspace |-> json.workspace, username |-> json.username,
              machine |-> json.machine,
              feature_type |-> CHOOSE ft \in FeatureTypes :
                                  FeatureToString(ft) = json.feature_type,
              description |-> json.description ])
    ELSE Err("unknown variant")

\* Option<i32>
SomeInt(k) == [some |-> TRUE, value |-> k]
NoInt == [some |-> FALSE, value |-> 0]

\* limit.unwrap_or(50)
DefaultLimit == 50

\* No get_branch_history call in progress.
NoHistoryOut == [limit |-> NoInt, result |-> Nil]

\* No update_branch_config call in progress.
NoConfig == [none |-> TRUE]

\* rows without its i-th element
Without(rows, i) == SubSeq(rows, 1, i - 1) \o SubSeq(rows, i + 1, Len(rows))

\* ORDER BY created_at DESC: every order of the rows in which created_at never
\* increases; rows with equal created_at come in any order.
RECURSIVE OrderByCreatedAtDesc(_)
OrderByCreatedAtDesc(rows) ==
    IF rows = <<>> THEN {<<>>}
    ELSE LET latest == {i \in 1..Len(rows) :
                           \A j \in 1..Len(rows) :
                               rows[j].created_at <= rows[i].created_at}
         IN  UNION {{<<rows[i]>> \o rest :
                        rest \in OrderByCreatedAtDesc(Without(rows, i))} :
                    i \in latest}

\* LIMIT ?: the first k rows; a negative k is no limit in SQLite.
Limit(rows, k) ==
    IF k < 0 \/ k >= Len(rows) THEN rows ELSE SubSeq(rows, 1, k)

\* The loop over the fetched rows: a row whose pattern_json does not
\* deserialize is skipped.
RECURSIVE Entries(_)
Entries(rows) ==
    IF rows = <<>> THEN <<>>
    ELSE LET pattern == from_json(rows[1].pattern_json) IN
         (IF pattern.kind = "ok"
          THEN << [branch_name |-> rows[1].branch_name, pattern |-> pattern.value,
                   created_at |-> rows[1].created_at] >>
          ELSE <<>>) \o Entries(Tail(rows))

\* GitBranchService::get_branch_history: the vectors the query can produce.
get_branch_historyMutAscending(rows, limit) ==
    LET k == IF limit.some THEN limit.value ELSE DefaultLimit
    IN  {Entries(Limit(rows, k))}

get_branch_history(rows, limit) ==
    LET k == IF limit.some THEN limit.value ELSE DefaultLimit
    IN  {Entries(Limit(ordered, k)) : ordered \in OrderByCreatedAtDesc(rows)}

\* generate_branch_name not under test.
NoInput == [config |-> Nil, pattern |-> Nil]

GenIdle == genInput = NoInput /\ genOut = Nil

\* sanitize_name not under test.
SanIdle == sanIn = <<>> /\ sanOut = <<>>

\* No suggestion call under test.
NoSugInput == [config |-> Nil, workspace_name |-> <<>>, feature_type |-> Nil]

SugIdle == sugIn = NoSugInput /\ sugOut = Nil

\* No command has been invoked: nobody holds the Mutex<GitService>.
NoCommand == [pc |-> "idle", command |-> "none", result |-> Nil]

GitIdle == gitLock = "none" /\ req = NoCommand

SvcInit ==
    /\ config = DefaultConfig
    /\ system_info = DetectedSystemInfo
    /\ branches = {Main, Dev}
    /\ current = Main
    /\ history = <<>>
    /\ clock = 0
    /\ calls = [c \in Callers |-> IdleCall]
    /\ lastDone = IdleCall
    /\ engineNames = {}
    /\ createdNames = {}
    /\ nCalls = 0
    /\ historyOut = NoHistoryOut
    /\ supplied = DefaultConfig
    /\ lock = 0
    /\ updating = [c \in Callers |-> NoConfig]

\* The call ends with `result`.
Finish(call, result) == [call EXCEPT !.pc = "done", !.result = result]

\* commands::create_branch clones the service under the lock, and create_branch
\* generates the branch name with the clone's generator: a generation failure
\* is returned as it is.
CreateBranchCall(c, request) ==
    /\ calls[c].pc = "idle"
    /\ nCalls < MaxCalls
    /\ nCalls' = nCalls + 1
    /\ LET generated == generate_branch_name(config, request.pattern)
           call == [IdleCall EXCEPT
                      !.request = request,
                      !.generator = [config |-> config, system_info |-> system_info],
                      !.generated = generated,
                      !.startBranches = branches,
                      !.startCurrent = current,
                      !.startHistory = Len(history)]
       IN  calls' = [calls EXCEPT ![c] =
                IF generated.kind = "ok"
                THEN [call EXCEPT !.pc = "exists", !.branch_name = generated.value]
                ELSE Finish(call, generated)]
    /\ UNCHANGED <<config, system_info, branches, current, history, clock,
                   lastDone, historyOut, supplied,
                   lock, updating, engineNames, createdNames>>

\* self.branch_exists(..)?: git branch --list <name>. spawned = FALSE is the
\* command failing to start.
BranchExists(c, spawned) ==
    /\ calls[c].pc = "exists"
    /\ LET call == calls[c] IN
        IF ~spawned
        THEN /\ calls' = [calls EXCEPT ![c] =
                    Finish(call, Err("Failed to check if branch exists"))]
             /\ UNCHANGED engineNames
        ELSE /\ engineNames' = engineNames \cup {call.branch_name}
             /\ LET ran == [call EXCEPT !.engineCalls = @ + 1] IN
                calls' = [calls EXCEPT ![c] =
                    IF branch_exists(branches, call.branch_name)
                    THEN Finish(ran, Ok(BranchCreateResult(call.branch_name, FALSE, FALSE,
                                            AlreadyExists(call.branch_name))))
                    ELSE [ran EXCEPT !.pc = "current"]]
    /\ UNCHANGED <<config, system_info, branches, current, history, clock,
                   lastDone, historyOut, supplied,
                   lock, updating, createdNames, nCalls>>

\* self.get_current_branch(..)? and the choice of base_branch.
GetCurrentBranch(c, outcome) ==
    /\ calls[c].pc = "current"
    /\ LET call == calls[c] IN
        calls' = [calls EXCEPT ![c] =
            IF outcome # "success"
            THEN Finish(call, Err("Failed to get current branch"))
            ELSE [call EXCEPT
                    !.pc = "create",
                    !.engineCalls = @ + 1,
                    !.base_branch = IF call.request.base_branch.some
                                    THEN call.request.base_branch.value
                                    ELSE current]]
    /\ UNCHANGED <<config, system_info, branches, current, history, clock,
                   lastDone, historyOut, supplied,
                   lock, updating, engineNames, createdNames, nCalls>>

\* What git itself asks of a branch name (git check-ref-format) beyond the
\* validator's grammar: no '/' at either end, no '.' at the end and no path
\* component that starts with '.'.
GitAcceptsRefName(name) ==
    /\ validate_branch_name(name).kind = "ok"
    /\ name[1] \notin {"/", "."}
    /\ name[Len(name)] \notin {"/", "."}
    /\ \A i \in 1..(Len(name) - 1) : ~(name[i] = "/" /\ name[i + 1] = ".")

\* git checkout -b <name> <base>: can succeed only for a new name git accepts
\* and an existing base.
CheckoutNewBranchMutRaise(c, outcome) ==
    /\ calls[c].pc = "create"
    /\ LET call == calls[c] IN
        CASE outcome = "spawn_error" ->
                /\ calls' = [calls EXCEPT ![c] =
                        Finish(call, Err("Failed to create branch"))]
                /\ UNCHANGED <<branches, current, engineNames, createdNames>>
          [] outcome = "failure" ->
                /\ calls' = [calls EXCEPT ![c] =
                        Finish([call EXCEPT !.engineCalls = @ + 1, !.checkouts = @ + 1],
                               Err("Failed to create branch"))]
                /\ engineNames' = engineNames \cup {call.branch_name}
                /\ UNCHANGED <<branches, current, createdNames>>
          [] outcome = "success" ->
                /\ call.branch_name \notin branches
                /\ GitAcceptsRefName(call.branch_name)
                /\ call.base_branch \in branches
                /\ branches' = branches \cup {call.branch_name}
                /\ current' = call.branch_name
                /\ engineNames' = engineNames \cup {call.branch_name}
                /\ createdNames' = createdNames \cup {call.branch_name}
                /\ calls' = [calls EXCEPT ![c] =
                        [call EXCEPT
                           !.pc = IF call.request.auto_switch THEN "save" ELSE "switch",
                           !.engineCalls = @ + 1, !.checkouts = @ + 1,
                           !.createOk = TRUE,
                           !.switched = TRUE,
                           !.message = CreatedAndSwitched(call.branch_name)]]
    /\ UNCHANGED <<config, system_info, history, clock, lastDone, historyOut, supplied,
                   lock, updating, nCalls>>

CheckoutNewBranchMutNoRefCheck(c, outcome) ==
    /\ calls[c].pc = "create"
    /\ LET call == calls[c] IN
        CASE outcome = "spawn_error" ->
                /\ calls' = [calls EXCEPT ![c] =
                        Finish(call, Err("Failed to create branch"))]
                /\ UNCHANGED <<branches, current, engineNames, createdNames>>
          [] outcome = "failure" ->
                /\ calls' = [calls EXCEPT ![c] =
                        Finish([call EXCEPT !.engineCalls = @ + 1, !.checkouts = @ + 1],
                               Ok(BranchCreateResult(call.branch_name, FALSE, FALSE,
                                      FailedToCreate(call.branch_name))))]
                /\ engineNames' = engineNames \cup {call.branch_name}
                /\ UNCHANGED <<branches, current, createdNames>>
          [] outcome = "success" ->
                /\ GitAcceptsRefName(call.branch_name)
                /\ call.base_branch \in branches
                /\ branches' = branches \cup {call.branch_name}
                /\ current' = call.branch_name
                /\ engineNames' = engineNames \cup {call.branch_name}
                /\ createdNames' = createdNames \cup {call.branch_name}
                /\ calls' = [calls EXCEPT ![c] =
                        [call EXCEPT
                           !.pc = IF call.request.auto_switch THEN "save" ELSE "switch",
                           !.engineCalls = @ + 1, !.checkouts = @ + 1,
                           !.createOk = TRUE,
                           !.switched = TRUE,
                           !.message = CreatedAndSwitched(call.branch_name)]]
    /\ UNCHANGED <<config, system_info, history, clock, lastDone, historyOut, supplied,
                   lock, updating, nCalls>>

CheckoutNewBranch(c, outcome) ==
    /\ calls[c].pc = "create"
    /\ LET call == calls[c] IN
        CASE outcome = "spawn_error" ->
                /\ calls' = [calls EXCEPT ![c] =
                        Finish(call, Err("Failed to create branch"))]
                /\ UNCHANGED <<branches, current, engineNames, createdNames>>
          [] outcome = "failure" ->
                /\ calls' = [calls EXCEPT ![c] =
                        Finish([call EXCEPT !.engineCalls = @ + 1, !.checkouts = @ + 1],
                               Ok(BranchCreateResult(call.branch_name, FALSE, FALSE,
                                      FailedToCreate(call.branch_name))))]
                /\ engineNames' = engineNames \cup {call.branch_name}
                /\ UNCHANGED <<branches, current, createdNames>>
          [] outcome = "success" ->
                /\ call.branch_name \notin branches
                /\ GitAcceptsRefName(call.branch_name)
                /\ call.base_branch \in branches
                /\ branches' = branches \cup {call.branch_name}
                /\ current' = call.branch_name
                /\ engineNames' = engineNames \cup {call.branch_name}
                /\ createdNames' = createdNames \cup {call.branch_name}
                /\ calls' = [calls EXCEPT ![c] =
                        [call EXCEPT
                           !.pc = IF call.request.auto_switch THEN "save" ELSE "switch",
                           !.engineCalls = @ + 1, !.checkouts = @ + 1,
                           !.createOk = TRUE,
                           !.switched = TRUE,
                           !.message = CreatedAndSwitched(call.branch_name)]]
    /\ UNCHANGED <<config, system_info, history, clock, lastDone, historyOut, supplied,
                   lock, updating, nCalls>>

\* if !request.auto_switch: git checkout <base>.
SwitchBackMutIgnoreStatus(c, outcome) ==
    /\ calls[c].pc = "switch"
    /\ LET call == calls[c] IN
        CASE outcome = "spawn_error" ->
                /\ calls' = [calls EXCEPT ![c] =
                        Finish(call, Err("Failed to switch back to base branch"))]
                /\ UNCHANGED current
          [] outcome = "failure" ->
                /\ calls' = [calls EXCEPT ![c] =
                        [call EXCEPT
                           !.pc = "save", !.engineCalls = @ + 1, !.checkouts = @ + 1,
                           !.switched = FALSE,
                           !.message = CreatedStayed(call.branch_name, call.base_branch)]]
                /\ UNCHANGED current
          [] outcome = "success" ->
                /\ call.base_branch \in branches
                /\ current' = call.base_branch
                /\ calls' = [calls EXCEPT ![c] =
                        [call EXCEPT
                           !.pc = "save", !.engineCalls = @ + 1, !.checkouts = @ + 1,
                           !.switched = FALSE,
                           !.message = CreatedStayed(call.branch_name, call.base_branch)]]
    /\ UNCHANGED <<config, system_info, branches, history, clock, lastDone, historyOut, supplied,
                   lock, updating,
                   engineNames, createdNames, nCalls>>

SwitchBack(c, outcome) ==
    /\ calls[c].pc = "switch"
    /\ LET call == calls[c] IN
        CASE outcome = "spawn_error" ->
                /\ calls' = [calls EXCEPT ![c] =
                        Finish(call, Err("Failed to switch back to base branch"))]
                /\ UNCHANGED current
          [] outcome = "failure" ->
                /\ calls' = [calls EXCEPT ![c] =
                        [call EXCEPT !.pc = "save", !.engineCalls = @ + 1,
                                     !.checkouts = @ + 1]]
                /\ UNCHANGED current
          [] outcome = "success" ->
                /\ call.base_branch \in branches
                /\ current' = call.base_branch
                /\ calls' = [calls EXCEPT ![c] =
                        [call EXCEPT
                           !.pc = "save", !.engineCalls = @ + 1, !.checkouts = @ + 1,
                           !.switched = FALSE,
                           !.message = CreatedStayed(call.branch_name, call.base_branch)]]
    /\ UNCHANGED <<config, system_info, branches, history, clock, lastDone, historyOut, supplied,
                   lock, updating,
                   engineNames, createdNames, nCalls>>

\* INSERT INTO branch_history (branch_name, pattern_json, created_at)
InsertRowMutPrepend(rows, branch_name, pattern_json, created_at) ==
    << [branch_name |-> branch_name, pattern_json |-> pattern_json,
        created_at |-> created_at] >> \o rows

InsertRowMutTwice(rows, branch_name, pattern_json, created_at) ==
    rows \o << [branch_name |-> branch_name, pattern_json |-> pattern_json,
                created_at |-> created_at],
               [branch_name |-> branch_name, pattern_json |-> pattern_json,
                created_at |-> created_at] >>

InsertRow(rows, branch_name, pattern_json, created_at) ==
    Append(rows, [branch_name |-> branch_name, pattern_json |-> pattern_json,
                  created_at |-> created_at])

\* self.save_branch_creation(..).await? and the Ok(BranchCreateResult) after it.
\* inserted = FALSE is the INSERT failing; the clock may have advanced since the
\* last row.
SaveBranchCreation(c, inserted, tick) ==
    /\ calls[c].pc = "save"
    /\ LET call == calls[c] IN
        IF ~inserted
        THEN /\ calls' = [calls EXCEPT ![c] =
                    Finish(call, Err("Failed to save branch creation"))]
             /\ UNCHANGED <<history, clock>>
        ELSE /\ clock' = clock + tick
             /\ history' = InsertRow(history, call.branch_name,
                                     to_json(call.request.pattern), clock')
             /\ calls' = [calls EXCEPT ![c] =
                    Finish(call, Ok(BranchCreateResult(call.branch_name, TRUE,
                                        call.switched, call.message)))]
    /\ UNCHANGED <<config, system_info, branches, current, lastDone, historyOut, supplied,
                   lock, updating,
                   engineNames, createdNames, nCalls>>

\* The call returns to its caller.
CreateBranchReturn(c) ==
    /\ calls[c].pc = "done"
    /\ lastDone' = [IdleCall EXCEPT
                        !.pc = "done",
                        !.request = calls[c].request,
                        !.generator = calls[c].generator,
                        !.branch_name = calls[c].branch_name,
                        !.result = calls[c].result]
    /\ calls' = [calls EXCEPT ![c] = IdleCall]
    /\ UNCHANGED <<config, system_info, branches, current, history, clock,
                   engineNames, createdNames, nCalls, historyOut, supplied,
                   lock, updating>>

\* commands::get_branch_history: fetched = FALSE is the query failing.
GetBranchHistory(limit, fetched) ==
    /\ historyOut = NoHistoryOut
    /\ \E result \in (IF fetched
                       THEN {Ok(h) : h \in get_branch_history(history, limit)}
                       ELSE {Err("Failed to get branch history")}) :
            historyOut' = [limit |-> limit, result |-> result]
    /\ UNCHANGED <<config, system_info, branches, current, history, clock, calls,
                   lastDone, engineNames, createdNames, nCalls, supplied, lock,
                   updating>>

\* The get_branch_history call returns to its caller.
HistoryReturn ==
    /\ historyOut # NoHistoryOut
    /\ historyOut' = NoHistoryOut
    /\ UNCHANGED <<config, system_info, branches, current, history, clock, calls,
                   lastDone, engineNames, createdNames, nCalls, supplied, lock,
                   updating>>

\* BranchGenerator::new(config, system_info) as update_config calls it.
update_configMutMerge(generator, newConfig) ==
    [ config |-> [newConfig EXCEPT !.max_branch_name_length =
                                        generator.config.max_branch_name_length],
      system_info |-> generator.system_info ]

update_config(generator, newConfig) ==
    [config |-> newConfig, system_info |-> generator.system_info]

\* commands::update_branch_config with no other caller: lock, update_config,
\* unlock.
UpdateConfig(newConfig) ==
    /\ newConfig # config
    /\ lock = 0
    /\ LET generator == update_config([config |-> config, system_info |-> system_info],
                                     newConfig)
       IN  /\ config' = generator.config
           /\ system_info' = generator.system_info
    /\ supplied' = newConfig
    /\ UNCHANGED <<branches, current, history, clock, calls, lastDone, historyOut,
                   lock, updating, engineNames, createdNames, nCalls>>

\* commands::update_branch_config, first half: service_state.lock() returns
\* once no other caller holds the Mutex.
UpdateBegin(c, newConfig) ==
    /\ calls[c].pc = "idle"
    /\ updating[c] = NoConfig
    /\ lock = 0
    /\ lock' = c
    /\ updating' = [updating EXCEPT ![c] = newConfig]
    /\ UNCHANGED <<config, system_info, branches, current, history, clock, calls,
                   lastDone, engineNames, createdNames, nCalls, historyOut, supplied>>

\* commands::update_branch_config, second half: service.update_config(config)
\* and the guard dropped.
UpdateEnd(c) ==
    /\ lock = c
    /\ updating[c] # NoConfig
    /\ LET generator == update_config([config |-> config, system_info |-> system_info],
                                     updating[c])
       IN  /\ config' = generator.config
           /\ system_info' = generator.system_info
    /\ supplied' = updating[c]
    /\ lock' = 0
    /\ updating' = [updating EXCEPT ![c] = NoConfig]
    /\ UNCHANGED <<branches, current, history, clock, calls, lastDone, engineNames,
                   createdNames, nCalls, historyOut>>

Outcomes == {"spawn_error", "failure", "success"}

Init ==
    /\ CloneInit
    /\ GenIdle
    /\ SanIdle
    /\ StatusIdle
    /\ RepoInit
    /\ SvcInit
    /\ SugIdle
    /\ GitIdle

\* One caller: its create_branch calls follow one another.
Next ==
    \/ \E request \in Requests :
            /\ historyOut = NoHistoryOut
            /\ CreateBranchCall(1, request)
            /\ UNCHANGED nonSvcVars
    \/ \E spawned \in BOOLEAN :
            BranchExists(1, spawned) /\ UNCHANGED nonSvcVars
    \/ \E outcome \in Outcomes :
            GetCurrentBranch(1, outcome) /\ UNCHANGED nonSvcVars
    \/ \E outcome \in Outcomes :
            CheckoutNewBranch(1, outcome) /\ UNCHANGED nonSvcVars
    \/ \E outcome \in Outcomes :
            SwitchBack(1, outcome) /\ UNCHANGED nonSvcVars
    \/ \E inserted \in BOOLEAN, tick \in {0, 1} :
            SaveBranchCreation(1, inserted, tick) /\ UNCHANGED nonSvcVars
    \/ CreateBranchReturn(1) /\ UNCHANGED nonSvcVars
    \/ \E newConfig \in Configs :
            /\ calls[1].pc = "idle"
            /\ historyOut = NoHistoryOut
            /\ UpdateConfig(newConfig)
            /\ UNCHANGED nonSvcVars
    \/ \E limit \in {NoInt, SomeInt(1)}, fetched \in BOOLEAN :
            /\ calls[1].pc = "idle"
            /\ GetBranchHistory(limit, fetched)
            /\ UNCHANGED nonSvcVars
    \/ HistoryReturn /\ UNCHANGED nonSvcVars

Spec == Init /\ [][Next]_vars

\* The requests of concurrent callers: the same pattern, switching or not.
ConcRequests ==
    { r \in Requests : r.pattern = PatternFor(<<"a">>, NoString) /\ ~r.base_branch.some }

\* Several callers: every command runs on its own task, and only the Mutex
\* around the service orders them.
ConcNext ==
    \/ \E c \in Callers, request \in ConcRequests :
            /\ lock = 0
            /\ updating[c] = NoConfig
            /\ CreateBranchCall(c, request)
            /\ UNCHANGED nonSvcVars
    \/ \E c \in Callers, spawned \in BOOLEAN :
            BranchExists(c, spawned) /\ UNCHANGED nonSvcVars
    \/ \E c \in Callers, outcome \in Outcomes :
            GetCurrentBranch(c, outcome) /\ UNCHANGED nonSvcVars
    \/ \E c \in Callers, outcome \in Outcomes :
            CheckoutNewBranch(c, outcome) /\ UNCHANGED nonSvcVars
    \/ \E c \in Callers, outcome \in Outcomes :
            SwitchBack(c, outcome) /\ UNCHANGED nonSvcVars
    \/ \E c \in Callers, inserted \in BOOLEAN :
            SaveBranchCreation(c, inserted, 1) /\ UNCHANGED nonSvcVars
    \/ \E c \in Callers : CreateBranchReturn(c) /\ UNCHANGED nonSvcVars
    \/ \E c \in Callers, newConfig \in Configs :
            UpdateBegin(c, newConfig) /\ UNCHANGED nonSvcVars
    \/ \E c \in Callers : UpdateEnd(c) /\ UNCHANGED nonSvcVars

ConcSpec == Init /\ [][ConcNext]_vars

(***************************************************************************)
(* generate_branch_name applied to bounded inputs                          *)
(***************************************************************************)

\* The longest workspace name tried, in characters.
MaxStrLen == 2
\* The largest max_branch_name_length tried below the default.
MaxCut == 14

\* The characters workspace names are made of.
NameChars == {"a", "B", "-", "é"}
Strings(n) == UNION {[1..k -> NameChars] : k \in 0..n}

Templates ==
    { DefaultTemplate,
      PhWorkspace,
      PhWorkspace \o <<"-">>,
      PhFeature \o <<"/">> \o PhWorkspace,
      PhWorkspace \o <<".", ".">> \o PhMachine,
      PhUsername \o <<" ">> \o PhFeature,
      <<"-">> \o PhFeature \o <<"/">> \o PhWorkspace \o <<"/">> }

GenConfigs ==
    [ auto_create_branches : {TRUE},
      default_feature_type : {"Feature"},
      branch_prefix_pattern : Templates,
      max_branch_name_length : 0..MaxCut \cup {DefaultMaxLength},
      allowed_feature_types : {<<"Feature", "Documentation">>} ]

GenPatterns ==
    [ workspace : Strings(MaxStrLen),
      username : {<<"j", ".", "D">>},
      machine : {<<"M", "-", "p">>},
      feature_type : {"Feature", "Documentation"},
      description : {NoString, Some(<<>>), Some(<<"x", " ", "y">>),
                     Some(<<"-", "!">>), Some(<<"É", "_">>)} ]

\* The pattern of test_generate_branch_name, and one whose username has
\* nothing sanitize_name keeps.
ExamplePattern ==
    [ workspace |-> <<"e", "c", "o", "m", "m", "e", "r", "c", "e", "-", "a", "p", "i">>,
      username |-> <<"j", "o", "h", "n", ".", "d", "o", "e">>,
      machine |-> <<"M", "a", "c", "B", "o", "o", "k", "-", "P", "r", "o">>,
      feature_type |-> "Feature",
      description |-> Some(<<"a", "d", "d", " ", "p", "a", "y", "m", "e", "n", "t", " ", "e", "n",
                              "d", "p", "o", "i", "n", "t", "s">>) ]

BarePattern ==
    [ workspace |-> <<"a", "_", "B">>, username |-> <<".">>,
      machine |-> <<"É", " ", "b">>, feature_type |-> "Documentation",
      description |-> Some(<<"!">>) ]

\* A generator and a pattern for it; nothing else runs.
GenInit ==
    /\ genInput \in [config : GenConfigs,
                     pattern : GenPatterns \cup {ExamplePattern, BarePattern}]
    /\ genOut = Nil
    /\ CloneInit
    /\ SanIdle
    /\ StatusIdle
    /\ RepoInit
    /\ SvcInit
    /\ SugIdle
    /\ GitIdle

\* generate_branch_name is called on the input.
GenerateBranchName ==
    /\ genOut = Nil
    /\ genOut' = generate_branch_name(genInput.config, genInput.pattern)
    /\ UNCHANGED genInput

GenNext == GenerateBranchName

(***************************************************************************)
(* suggest_pattern and get_suggested_branches as functions of the config   *)
(* and the workspace name they are called with                             *)
(***************************************************************************)

\* max_branch_name_length values that cut a suggested name.
SugCuts == {1, 7}

\* Configs update_config can install: allowed_feature_types empty, in an
\* order of its own, with a type twice; a default type inside or outside it;
\* a template whose name is valid for some types only.
SugConfigs ==
    [ auto_create_branches : {TRUE},
      default_feature_type : {"Feature", "Hotfix"},
      branch_prefix_pattern : {DefaultTemplate, PhWorkspace,
                               PhFeature \o <<".", ".">>},
      max_branch_name_length : SugCuts \cup {DefaultMaxLength},
      allowed_feature_types : {<<>>,
                               <<"Feature", "Documentation", "Bugfix">>,
                               <<"Documentation", "Feature", "Documentation">>} ]

\* The generator of the service: the config under test, the detected system.
SugGenerator == [config |-> sugIn.config, system_info |-> DetectedSystemInfo]

SugInit ==
    /\ sugIn \in [config : SugConfigs,
                  workspace_name : Strings(MaxStrLen),
                  feature_type : {NoFeature, SomeFeature("Feature"),
                                  SomeFeature("Hotfix")}]
    /\ sugOut = Nil
    /\ CloneInit
    /\ GenIdle
    /\ SanIdle
    /\ StatusIdle
    /\ RepoInit
    /\ SvcInit
    /\ GitIdle

\* The suggest_branch_pattern command: suggest_pattern on the arguments.
SuggestBranchPattern ==
    /\ sugOut = Nil
    /\ sugOut' = [op |-> "suggest_pattern",
                  result |-> suggest_pattern(SugGenerator, sugIn.workspace_name,
                                             sugIn.feature_type)]
    /\ UNCHANGED <<sugIn, nonSugVars>>

\* The get_suggested_branches command.
GetSuggestedBranches ==
    /\ sugOut = Nil
    /\ sugOut' = [op |-> "get_suggested_branches",
                  result |-> get_suggested_branches(SugGenerator,
                                                    sugIn.workspace_name)]
    /\ UNCHANGED <<sugIn, nonSugVars>>

SugNext ==
    \/ SuggestBranchPattern
    \/ GetSuggestedBranches

SuggestSpec == SugInit /\ [][SugNext]_vars

(***************************************************************************)
(* The branch_history table of a long-lived service: rows are written as   *)
(* save_branch_creation writes them and read by get_branch_history         *)
(***************************************************************************)

\* How many rows are written.
MaxRows == 51
\* How many of the first rows may carry the timestamp of the row before.
MaxTies == 2

DigitChars == <<"0", "1", "2", "3", "4", "5", "6", "7", "8", "9">>

RECURSIVE Decimal(_)
Decimal(n) ==
    IF n < 10 THEN <<DigitChars[n + 1]>>
    ELSE Decimal(n \div 10) \o <<DigitChars[(n % 10) + 1]>>

\* The branch of the n-th row.
RowName(n) == <<"b">> \o Decimal(n)

\* The limits get_branch_history is asked for.
Limits == {NoInt, SomeInt(-1), SomeInt(0), SomeInt(1), SomeInt(2), SomeInt(MaxRows)}

\* save_branch_creation at the end of one more successful create_branch.
RecordCreation(tick) ==
    /\ Len(history) < MaxRows
    /\ tick = 0 => Len(history) < MaxTies
    /\ historyOut = NoHistoryOut
    /\ clock' = clock + tick
    /\ history' = InsertRow(history, RowName(Len(history) + 1),
                            to_json(PatternFor(<<"a">>, NoString)), clock')
    /\ UNCHANGED <<config, system_info, branches, current, calls, lastDone,
                   engineNames, createdNames, nCalls, historyOut, supplied, lock,
                   updating>>

HistNext ==
    \/ \E tick \in {0, 1} : RecordCreation(tick) /\ UNCHANGED nonSvcVars
    \/ \E limit \in Limits, fetched \in BOOLEAN :
            GetBranchHistory(limit, fetched) /\ UNCHANGED nonSvcVars
    \/ HistoryReturn /\ UNCHANGED nonSvcVars

HistSpec == Init /\ [][HistNext]_vars

(***************************************************************************)
(* sanitize_name applied to bounded inputs, and again to its own result    *)
(***************************************************************************)

\* The longest string sanitize_name is given, in characters.
MaxSanLen == 4

\* The characters of those strings: a lower-case and an upper-case letter, a
\* two-byte letter, the two kept punctuation marks and two replaced ones.
SanChars == {"a", "B", "É", "-", "_", ".", " "}
SanStrings == UNION {[1..k -> SanChars] : k \in 0..MaxSanLen}

SanInit ==
    /\ sanIn \in SanStrings
    /\ sanOut = <<>>
    /\ CloneInit
    /\ GenIdle
    /\ StatusIdle
    /\ RepoInit
    /\ SvcInit
    /\ SugIdle
    /\ GitIdle

\* sanitize_name is called on the input, then on what it returned.
SanitizeName ==
    /\ Len(sanOut) < 2
    /\ sanOut' = Append(sanOut, sanitize_name(IF sanOut = <<>> THEN sanIn
                                               ELSE sanOut[Len(sanOut)]))
    /\ UNCHANGED sanIn

SanNext == SanitizeName

SanSpec == SanInit /\ [][SanNext /\ UNCHANGED nonSanVars]_vars

\* What the engine finds at repo_path; nothing else runs.
StatusInit ==
    /\ statusIn \in StatusInputs
    /\ statusOut = Nil
    /\ CloneInit
    /\ GenIdle
    /\ SanIdle
    /\ RepoInit
    /\ SvcInit
    /\ SugIdle
    /\ GitIdle

StatusSpec == StatusInit /\ [][StatusNext /\ UNCHANGED nonStatusVars]_vars

RepoSpec == Init /\ [][RepoNext]_vars

CloneSpec == Init /\ [][CloneNext /\ UNCHANGED nonCloneVars]_vars

GenSpec == GenInit /\ [][GenNext /\ UNCHANGED nonGenVars]_vars

(***************************************************************************)
(* The Tauri commands of commands/git.rs: each locks the one               *)
(* Mutex<GitService> of the application and holds the guard until the      *)
(* service call has returned                                               *)
(***************************************************************************)

\* What the commands leave alone.
nonCmdVars == <<genVars, sanVars, statusVars, repoVars, svcVars, sugVars>>

\* The read commands a second caller invokes.
ReadCommands == {"git_get_status", "git_get_branches", "git_check_repository"}

\* git_clone_repository: git_service.lock(), then clone_repository starts.
\* lock() blocks while another command holds the guard.
GitCloneRepository(env) ==
    /\ gitLock = "none"
    /\ gitLock' = "git_clone_repository"
    /\ CloneStart(env)
    /\ UNCHANGED <<req, nonCmdVars>>

\* The clone returns to the command, whose guard is dropped with it.
GitCloneReturn ==
    /\ gitLock = "git_clone_repository"
    /\ gitLock' = "none"
    /\ CloneReturn
    /\ UNCHANGED <<req, nonCmdVars>>

\* A caller invokes a read command; the command is about to lock the service.
InvokeCommand(command) ==
    /\ req.pc = "idle"
    /\ req' = [pc |-> "locking", command |-> command, result |-> Nil]
    /\ UNCHANGED <<gitLock, cloneVars, nonCmdVars>>

\* git_service.lock() returns the guard: nobody else holds it.
AcquireLock ==
    /\ req.pc = "locking"
    /\ gitLock = "none"
    /\ gitLock' = req.command
    /\ req' = [req EXCEPT !.pc = "running"]
    /\ UNCHANGED <<cloneVars, nonCmdVars>>

\* The service call of the command runs on the repository and the command
\* returns, dropping the guard.
RunCommand ==
    /\ req.pc = "running"
    /\ gitLock' = "none"
    /\ req' = [req EXCEPT
                 !.pc = "returned",
                 !.result =
                    CASE req.command = "git_get_status" ->
                            get_repository_status(statusIn)
                      [] req.command = "git_get_branches" -> get_branches(repo)
                      [] req.command = "git_check_repository" ->
                            Ok(repo.initialized)]
    /\ UNCHANGED <<cloneVars, nonCmdVars>>

\* The caller takes the result.
CommandDone ==
    /\ req.pc = "returned"
    /\ req' = NoCommand
    /\ UNCHANGED <<gitLock, cloneVars, nonCmdVars>>

CmdNext ==
    \/ \E env \in CloneEnvs : GitCloneRepository(env)
    \/ EngineConnectFail /\ UNCHANGED <<gitVars, nonCmdVars>>
    \/ EngineNoAuth /\ UNCHANGED <<gitVars, nonCmdVars>>
    \/ \E allowed \in SUBSET CredentialTypes :
            CredentialsCallback(allowed) /\ UNCHANGED <<gitVars, nonCmdVars>>
    \/ RemoteAccept /\ UNCHANGED <<gitVars, nonCmdVars>>
    \/ RemoteReject /\ UNCHANGED <<gitVars, nonCmdVars>>
    \/ \E ok \in BOOLEAN : TransferEnds(ok) /\ UNCHANGED <<gitVars, nonCmdVars>>
    \/ GitCloneReturn
    \/ CloneDone /\ UNCHANGED <<gitVars, nonCmdVars>>
    \/ \E command \in ReadCommands : InvokeCommand(command)
    \/ AcquireLock
    \/ RunCommand
    \/ CommandDone

CmdSpec == Init /\ [][CmdNext]_vars

(***************************************************************************)
(* Properties of the credential negotiation                                *)
(***************************************************************************)

\* How many of the offered credentials came from strategy t.
OfferedFrom(t) == Cardinality({i \in 1..Len(offered) : offered[i].from = t})

\* The running or finished clone has seen every offered credential rejected.
RemoteRejectedAll ==
    /\ lastCb # NoCb
    /\ lastCb.result.kind = "err"
    /\ Len(offered) >= 1

\* C1: only invocations 1 to 3 of the callback return a credential; an
\* invocation numbered 4 or higher returns 'Authentication failed after multiple
\* attempts', attempts no strategy and leaves the tried set alone; so at most 3
\* credentials are offered in one clone.
C1_AttemptCap ==
    /\ Len(offered) <= 3
    /\ lastCb # NoCb =>
        /\ lastCb.result.kind = "ok" => lastCb.n \in 1..3
        /\ lastCb.n >= 4 =>
            /\ lastCb.result = Err(TooManyAttempts)
            /\ lastCb.attempted = <<>>
            /\ lastCb.keyLoop = <<>>
            /\ tried_methods = lastCb.triedBefore

\* A fourth invocation has been made, after three credentials were offered.
C1_Witness ==
    /\ lastCb # NoCb
    /\ lastCb.n = 4
    /\ Len(offered) = 3

C3_NoStrategyRetried ==
    /\ \A t \in StrategyTags :
        /\ Cardinality(attemptedAt[t]) <= 1
        /\ OfferedFrom(t) <= 1
        /\ attemptedAt[t] # {} => t \in tried_methods
    /\ lastCb # NoCb =>
        \A i \in 1..Len(lastCb.attempted) :
            /\ lastCb.attempted[i] \notin lastCb.triedBefore
            /\ lastCb.attempted[i] \in tried_methods

\* A later invocation, key auth advertised again, after the key files were tried.
C3_Witness ==
    /\ lastCb # NoCb
    /\ lastCb.n >= 2
    /\ "ssh_keys" \in lastCb.triedBefore
    /\ SSH_KEY \in lastCb.allowed
    /\ cloneEnv.keysOk # {}

\* The first pair in the order ed25519, RSA, ECDSA that exists and constructs.
FirstUsableKey(env) ==
    IF "id_ed25519" \in env.keysOk THEN "id_ed25519"
    ELSE IF "id_rsa" \in env.keysOk THEN "id_rsa"
    ELSE IF "id_ecdsa" \in env.keysOk THEN "id_ecdsa"
    ELSE None

Attempted(cb, t) == \E i \in 1..Len(cb.attempted) : cb.attempted[i] = t

\* C4: on every invocation within the cap the strategies not yet tried are
\* considered in the order agent, key files, username/password: the agent exactly
\* when key auth is advertised on invocation 1; the key files exactly when key
\* auth is advertised and the agent was not attempted or failed to construct,
\* yielding the first pair of ed25519, RSA, ECDSA that exists and constructs;
\* the username/password only when plaintext auth is advertised and no earlier
\* strategy yielded a credential, and as a credential only when inline
\* credentials were supplied; and the invocation fails when none yields one.
C4_StrategyOrder ==
    (lastCb # NoCb /\ lastCb.n <= 3) =>
        LET cb == lastCb
            env == cloneEnv
            agent == Attempted(cb, "ssh_agent")
            keys == Attempted(cb, "ssh_keys")
            up == Attempted(cb, "userpass")
            agentCred == agent /\ env.agentOk
            keyCred == keys /\ FirstUsableKey(env) # None
        IN  /\ agent <=> (SSH_KEY \in cb.allowed /\ cb.n = 1)
            /\ keys <=> (SSH_KEY \in cb.allowed /\ ~agentCred
                         /\ "ssh_keys" \notin cb.triedBefore)
            /\ up <=> (USER_PASS_PLAINTEXT \in cb.allowed /\ ~agentCred /\ ~keyCred
                       /\ "userpass" \notin cb.triedBefore)
            /\ \A i, j \in 1..Len(cb.attempted) :
                 (i < j) =>
                    \/ cb.attempted[i] = "ssh_agent" /\ cb.attempted[j] # "ssh_agent"
                    \/ cb.attempted[i] = "ssh_keys" /\ cb.attempted[j] = "userpass"
            /\ \A i \in 1..Len(cb.keyLoop) :
                 /\ cb.keyLoop[i] \in env.keysOnDisk
                 /\ i < Len(cb.keyLoop) => cb.keyLoop[i] \notin env.keysOk
            /\ cb.result =
                 IF agentCred THEN Ok([from |-> "ssh_agent", key |-> None])
                 ELSE IF keyCred
                      THEN Ok([from |-> "ssh_keys", key |-> FirstUsableKey(env)])
                 ELSE IF up /\ env.creds = "good"
                      THEN Ok([from |-> "userpass", key |-> None])
                 ELSE IF up /\ env.creds = "bad" THEN Err(UserpassError)
                 ELSE Err(NoMethod)

\* The agent failed to construct, ed25519 exists but does not construct, and the
\* invocation returned the RSA pair although ECDSA would construct too.
C4_Witness ==
    /\ lastCb # NoCb
    /\ lastCb.attempted = <<"ssh_agent", "ssh_keys">>
    /\ lastCb.keyLoop = <<"id_ed25519", "id_rsa">>
    /\ lastCb.result = Ok([from |-> "ssh_keys", key |-> "id_rsa"])
    /\ "id_ecdsa" \in cloneEnv.keysOk

\* C5: clone_repository always returns Ok(CloneResult) carrying the destination
\* path: success:false with the engine's error in the message whenever
\* builder.clone failed (a failed negotiation included), success:true only when
\* builder.clone succeeded.
C5_FailureAsData ==
    clonePc = "done" =>
        /\ cloneResult.kind = "ok"
        /\ cloneResult.value.path = cloneEnv.path
        /\ cloneResult.value.success <=> engineResult.kind = "ok"
        /\ engineResult.kind = "err" =>
             cloneResult.value.message =
                <<"Failed to clone repository: ", engineResult.error>>

\* A clone that ended because the negotiation was exhausted.
C5_Witness ==
    /\ clonePc = "done"
    /\ engineResult = Err(TooManyAttempts)
    /\ cloneResult.kind = "ok"
    /\ cloneResult.value.success = FALSE

(***************************************************************************)
(* Properties of create_branch and of generate_branch_name                 *)
(***************************************************************************)

\* The grammar of the spec: non-empty, no '-' at either end, no '..', no '//',
\* none of ~ ^ : ? * [ \ and no space.
GrammarOK(name) ==
    /\ name # <<>>
    /\ name[1] # "-"
    /\ name[Len(name)] # "-"
    /\ \A i \in 1..(Len(name) - 1) :
        /\ ~(name[i] = "." /\ name[i + 1] = ".")
        /\ ~(name[i] = "/" /\ name[i + 1] = "/")
    /\ \A i \in 1..Len(name) :
        name[i] \notin {"~", "^", ":", "?", "*", "[", "\\", " "}

\* The rows of branch_history for a branch name.
RowsFor(branch_name) == {i \in 1..Len(history) : history[i].branch_name = branch_name}

\* C6 as stated (the INSERT itself granted not to fail): a create_branch call
\* whose create-and-checkout succeeded has appended exactly one history row,
\* for its branch, when it ends, whatever happened in the switch-back; and
\* with no call in flight every branch create_branch created has a row.
C6_RowForEveryCreation ==
    LET call == calls[1] IN
    (call.pc = "done" /\ call.createOk
        /\ call.result # Err("Failed to save branch creation")) =>
        /\ Len(history) = call.startHistory + 1
        /\ history[Len(history)].branch_name = call.branch_name
        /\ history[Len(history)].pattern_json = to_json(call.request.pattern)
        /\ \A name \in createdNames : RowsFor(name) # {}

\* C7: two create_branch calls in a row with the same pattern and the same
\* generator, the first returning created:true: the second creates nothing and
\* runs no checkout; once its existence check has run it returns created:false,
\* switched:false with "Branch '<name>' already exists" (it can only end
\* otherwise by failing to start that check); and branch_history holds exactly
\* one row for the name.
C7_SecondCallAlreadyExists ==
    LET first == lastDone
        second == calls[1]
    IN  (first.pc = "done" /\ second.pc = "done"
            /\ first.request.pattern = second.request.pattern
            /\ first.generator = second.generator
            /\ first.result.kind = "ok" /\ first.result.value.created) =>
        LET name == first.result.value.branch_name IN
        /\ second.branch_name = name
        /\ second.engineCalls >= 1 =>
             second.result = Ok(BranchCreateResult(name, FALSE, FALSE,
                                  Message("Branch '{}' already exists", name, <<>>)))
        /\ second.engineCalls = 0 =>
             second.result = Err("Failed to check if branch exists")
        /\ ~second.createOk
        /\ second.checkouts = 0
        /\ Cardinality(RowsFor(name)) = 1

\* The second of two such calls has returned created:false.
C7_Witness ==
    /\ lastDone.pc = "done"
    /\ calls[1].pc = "done"
    /\ lastDone.request.pattern = calls[1].request.pattern
    /\ lastDone.generator = calls[1].generator
    /\ lastDone.result.kind = "ok"
    /\ lastDone.result.value.created
    /\ calls[1].result.kind = "ok"
    /\ ~calls[1].result.value.created
    /\ Cardinality(RowsFor(calls[1].branch_name)) = 1

\* C8: a create_branch call whose existence check ran on a name that was a
\* branch of the repository returns Ok with created:false, switched:false and
\* "Branch '<name>' already exists"; it has run no checkout, the branches and
\* the current branch are as they were when it began, and the history has
\* no new row.
C8_ExistingBranchUntouched ==
    LET call == calls[1] IN
    (call.pc = "done" /\ call.engineCalls >= 1
        /\ call.branch_name \in call.startBranches) =>
        /\ call.result = Ok([branch_name |-> call.branch_name, created |-> FALSE,
                             switched |-> FALSE,
                             message |-> Message("Branch '{}' already exists",
                                                 call.branch_name, <<>>)])
        /\ call.engineCalls = 1
        /\ call.checkouts = 0
        /\ branches = call.startBranches
        /\ current = call.startCurrent
        /\ Len(history) = call.startHistory

\* Such a call has ended, for a branch an earlier call created.
C8_Witness ==
    /\ calls[1].pc = "done"
    /\ calls[1].engineCalls >= 1
    /\ calls[1].branch_name \in calls[1].startBranches
    /\ calls[1].branch_name \in createdNames

C10_GeneratedNamesAreValid ==
    genOut.kind = "ok" => GrammarOK(genOut.value)

\* A returned name that was cut at max_branch_name_length right after a hyphen.
C10_Witness ==
    /\ genOut.kind = "ok"
    /\ LET sub == Substituted(genInput.config, genInput.pattern)
           cut == BytePrefix(sub, genInput.config.max_branch_name_length)
       IN  /\ len(sub) > genInput.config.max_branch_name_length
           /\ cut # <<>>
           /\ cut[Len(cut)] = "-"
           /\ genOut.value # cut

(***************************************************************************)
(* Properties of generate_branch_name                                      *)
(***************************************************************************)

\* The name the default template stands for.
DefaultName(pattern) ==
    LET d == sanitize_name(pattern.description.value) IN
    sanitize_name(pattern.workspace) \o <<"/">> \o sanitize_name(pattern.username)
        \o <<"-">> \o sanitize_name(pattern.machine) \o <<"/">>
        \o FeatureToString(pattern.feature_type)
        \o (IF pattern.description.some /\ d # <<>> THEN <<"-">> \o d ELSE <<>>)

ExampleName ==
    <<"e", "c", "o", "m", "m", "e", "r", "c", "e", "-", "a", "p", "i", "/",
      "j", "o", "h", "n", "-", "d", "o", "e", "-", "m", "a", "c", "b", "o",
      "o", "k", "-", "p", "r", "o", "/", "f", "e", "a", "t", "u", "r", "e",
      "-", "a", "d", "d", "-", "p", "a", "y", "m", "e", "n", "t", "-", "e",
      "n", "d", "p", "o", "i", "n", "t", "s">>

\* C12: with the default template {workspace}/{username}-{machine}/{feature}
\* and a name that needs no truncation, generate_branch_name returns
\* sanitize(workspace) + '/' + sanitize(username) + '-' + sanitize(machine) +
\* '/' + the feature type's token, followed by '-' + sanitize(description)
\* exactly when a description is present and sanitizes to a non-empty string;
\* for (ecommerce-api, john.doe, MacBook-Pro, Feature, 'add payment
\* endpoints') that name is
\* ecommerce-api/john-doe-macbook-pro/feature-add-payment-endpoints.
C12_DefaultTemplateName ==
    (/\ genOut # Nil
     /\ genInput.config.branch_prefix_pattern = DefaultTemplate
     /\ len(DefaultName(genInput.pattern)) <= genInput.config.max_branch_name_length)
    => /\ genOut = Ok(DefaultName(genInput.pattern))
       /\ genInput.pattern = ExamplePattern => genOut = Ok(ExampleName)

\* The example has been generated with the default config.
C12_Witness ==
    /\ genInput.pattern = ExamplePattern
    /\ genInput.config.branch_prefix_pattern = DefaultTemplate
    /\ genInput.config.max_branch_name_length = DefaultMaxLength
    /\ genOut = Ok(ExampleName)

\* `name` is `cut` without its trailing hyphens.
HyphensRemoved(cut, name) ==
    /\ Len(name) <= Len(cut)
    /\ name = SubSeq(cut, 1, Len(name))
    /\ \A i \in (Len(name) + 1)..Len(cut) : cut[i] = "-"
    /\ name # <<>> => name[Len(name)] # "-"

\* `name` is what the length limit makes of the substituted name `sub`: `sub`
\* itself within the limit, else its first `max` bytes without their trailing
\* hyphens.
Limited(sub, max, name) ==
    IF len(sub) <= max THEN name = sub
    ELSE \E n \in 0..Len(sub) :
            /\ len(SubSeq(sub, 1, n)) = max
            /\ HyphensRemoved(SubSeq(sub, 1, n), name)

\* C13: a substituted name longer than max_branch_name_length (in bytes) is
\* cut to exactly that length and its trailing hyphens are then removed; a
\* name within the limit is not cut. The name so limited is the one that is
\* validated and returned, so every name generate_branch_name returns has at
\* most max_branch_name_length bytes and no trailing hyphen. (A call that
\* aborts inside String::truncate returns nothing.)
C13_LengthLimit ==
    LET sub == Substituted(genInput.config, genInput.pattern)
        max == genInput.config.max_branch_name_length
    IN  /\ genOut # Nil /\ genOut.kind = "ok" =>
              /\ Limited(sub, max, genOut.value)
              /\ len(genOut.value) <= max
              /\ genOut.value[Len(genOut.value)] # "-"
        /\ genOut # Nil /\ genOut.kind = "err" =>
              \E name \in {SubSeq(sub, 1, n) : n \in 0..Len(sub)} :
                  /\ Limited(sub, max, name)
                  /\ genOut = validate_branch_name(name)

\* A name was returned that was cut and then lost a trailing hyphen.
C13_Witness ==
    /\ genOut # Nil
    /\ genOut.kind = "ok"
    /\ len(Substituted(genInput.config, genInput.pattern))
          > genInput.config.max_branch_name_length
    /\ len(genOut.value) < genInput.config.max_branch_name_length
    /\ genInput.config.max_branch_name_length > 0

(***************************************************************************)
(* Properties of sanitize_name                                             *)
(***************************************************************************)

\* The characters sanitize_name keeps.
SanitizedShape(s) ==
    /\ \A i \in 1..Len(s) :
          (is_alphanumeric(s[i]) /\ CharToLower(s[i]) = s[i]) \/ s[i] \in {"-", "_"}
    /\ s # <<>> => s[1] # "-" /\ s[Len(s)] # "-"
    /\ ~contains(s, <<"-", "-">>)

\* C11: sanitize is idempotent: for every input string x, sanitizing the
\* result of sanitize(x) again returns it unchanged,
\* sanitize(sanitize(x)) = sanitize(x); the result is lower-case, made of
\* alphanumerics, '-' and '_', with no hyphen at either end and no two
\* hyphens in a row.
C11_SanitizeIdempotent ==
    /\ Len(sanOut) >= 1 => SanitizedShape(sanOut[1])
    /\ Len(sanOut) = 2 => sanOut[2] = sanOut[1]

\* An input that sanitizing changes (case, a replaced character, an empty
\* piece) has been sanitized twice.
C11_Witness ==
    /\ Len(sanOut) = 2
    /\ sanIn = <<"B", ".", "-", "É">>
    /\ sanOut[1] = <<"b", "-", "é">>

(***************************************************************************)
(* Properties of the branch_history log                                    *)
(***************************************************************************)

\* C14: the branch-history log only grows: no operation updates or deletes a
\* row, so every step leaves the rows already written in place and unchanged,
\* and the only step that adds a row is the save of a create_branch call,
\* which appends exactly one row, for the branch of that call.
C14_HistoryOnlyGrows ==
    [][ /\ Len(history') >= Len(history)
        /\ SubSeq(history', 1, Len(history)) = history
        /\ history' # history =>
              \E c \in Callers :
                  /\ calls[c].pc = "save"
                  /\ calls'[c].pc = "done"
                  /\ Len(history') = Len(history) + 1
                  /\ history'[Len(history')].branch_name = calls[c].branch_name
      ]_vars

\* Two rows have been written, the config replaced and the log read.
C14_Witness ==
    /\ Len(history) = 2
    /\ config # DefaultConfig
    /\ historyOut.result.kind = "ok"

StrictlyIncreasing(rows) ==
    \A i \in 1..(Len(rows) - 1) : rows[i].created_at < rows[i + 1].created_at

\* C15: when the N rows of the log carry strictly increasing timestamps,
\* get_branch_history(limit = k) with k >= 0 returns min(k, N) entries, the
\* i-th being the i-th most recent row (its branch name, pattern and
\* timestamp), so in descending timestamp order; with no limit given k is 50.
C15_MostRecentFirst ==
    (historyOut.result.kind = "ok" /\ StrictlyIncreasing(history)) =>
        LET k == IF historyOut.limit.some THEN historyOut.limit.value ELSE 50
            N == Len(history)
            out == historyOut.result.value
        IN  k >= 0 =>
              /\ Len(out) = (IF k < N THEN k ELSE N)
              /\ \A i \in 1..Len(out) :
                    /\ out[i].branch_name = history[N - i + 1].branch_name
                    /\ out[i].created_at = history[N - i + 1].created_at
                    /\ to_json(out[i].pattern) = history[N - i + 1].pattern_json
              /\ \A i \in 1..(Len(out) - 1) : out[i].created_at > out[i + 1].created_at

\* 51 rows with increasing timestamps were read with no limit: 50 entries came
\* back, from the 51st row down to the 2nd.
C15_Witness ==
    /\ Len(history) = 51
    /\ StrictlyIncreasing(history)
    /\ historyOut.limit = NoInt
    /\ historyOut.result.kind = "ok"
    /\ Len(historyOut.result.value) = 50
    /\ historyOut.result.value[1].branch_name = RowName(51)
    /\ historyOut.result.value[50].branch_name = RowName(2)

(***************************************************************************)
(* Properties of get_repository_status and commit_changes                  *)
(***************************************************************************)

\* path is an element of list
InList(list, path) == \E i \in 1..Len(list) : list[i] = path

\* The flags the engine reports for path.
FlagsOf(path) ==
    UNION {statusIn.entries[i].flags :
              i \in {j \in 1..Len(statusIn.entries) : statusIn.entries[j].path = path}}

\* C16: a GitStatus lists a path in staged_files iff it carries an index-side
\* new/modified/deleted/renamed/typechange flag, in modified_files iff it
\* carries a working-tree-side modified/deleted/renamed/typechange flag and in
\* untracked_files iff it carries the working-tree-new flag, so a path with
\* flags on both sides is in both staged_files and modified_files; is_clean is
\* true iff the three lists are empty; ahead and behind are 0.
C16_StatusClassification ==
    (statusOut # Nil /\ statusOut.kind = "ok") =>
        LET st == statusOut.value IN
        /\ \A i \in 1..Len(StatusPaths) :
              LET path == StatusPaths[i] IN
              /\ InList(st.staged_files, path) <=>
                    FlagsOf(path) \cap {"INDEX_NEW", "INDEX_MODIFIED", "INDEX_DELETED",
                                        "INDEX_RENAMED", "INDEX_TYPECHANGE"} # {}
              /\ InList(st.modified_files, path) <=>
                    FlagsOf(path) \cap {"WT_MODIFIED", "WT_DELETED", "WT_RENAMED",
                                        "WT_TYPECHANGE"} # {}
              /\ InList(st.untracked_files, path) <=> "WT_NEW" \in FlagsOf(path)
        /\ st.is_clean <=> (st.staged_files = <<>> /\ st.modified_files = <<>>
                               /\ st.untracked_files = <<>>)
        /\ st.ahead = 0
        /\ st.behind = 0

\* One path is both staged and modified, the other untracked.
C16_Witness ==
    /\ statusOut # Nil
    /\ statusOut.kind = "ok"
    /\ statusOut.value.staged_files = <<"a.txt">>
    /\ statusOut.value.modified_files = <<"a.txt">>
    /\ statusOut.value.untracked_files = <<"b.txt">>
    /\ ~statusOut.value.is_clean

\* C17: get_repository_status returns an error, never a GitStatus, when the
\* path is not an openable repository or when the repository has no commit yet
\* (unborn HEAD).
C17_StatusHardErrors ==
    (statusOut # Nil /\ (~statusIn.openable \/ statusIn.head = "unborn"))
        => statusOut.kind = "err"

\* The status of a repository without commits, with an untracked file in its
\* working directory, was asked for and refused.
C17_Witness ==
    /\ statusIn.openable
    /\ statusIn.head = "unborn"
    /\ statusIn.entries = <<[path |-> "a.txt", flags |-> {"WT_NEW"}]>>
    /\ statusOut # Nil
    /\ statusOut.kind = "err"

\* C18: a commit_changes call made when nothing is staged (the index equals
\* the tree of the HEAD commit) returns Ok with success = false and creates no
\* commit.
C18_NothingStagedNoCommit ==
    (repoOut.op = "commit" /\ repoOut.nothing_staged) =>
        /\ repoOut.result.kind = "ok"
        /\ ~repoOut.result.value.success
        /\ repoOut.commits_after = repoOut.commits_before

(***************************************************************************)
(* Properties of update_config                                             *)
(***************************************************************************)

\* C19: update_config replaces the whole BranchConfig and leaves SystemInfo
\* alone: after any sequence of update_config calls the service's config
\* (get_branch_config) is the config the last call supplied, field for field,
\* the default one before any call, and its system_info (get_system_info) is
\* the one detected when the service was created.
C19_UpdateReplacesConfig ==
    /\ config = supplied
    /\ system_info = DetectedSystemInfo

\* A config that differs from the default in every field has been installed
\* after a create_branch call ran with the default one.
C19_Witness ==
    /\ supplied = ShortConfig
    /\ config = ShortConfig
    /\ \A f \in DOMAIN DefaultConfig : config[f] # DefaultConfig[f]
    /\ lastDone.pc = "done"
    /\ lastDone.generator.config = DefaultConfig

\* The name each config's generator makes of each pattern.
GeneratedName ==
    [cfg \in Configs |->
        [pattern \in SvcPatterns |-> generate_branch_name(cfg, pattern)]]

\* C20: config updates are atomic with respect to other calls. At most one
\* update_branch_config call holds the service lock at a time and no
\* create_branch call captures its generator meanwhile, so the service's
\* config is always exactly one of the configs supplied (or the default), the
\* one of the update that ran last; and a create_branch call in flight keeps
\* the generator (config and SystemInfo) it captured when it started: its
\* branch name is the one that generator makes of its pattern, whatever the
\* service's config has become.
C20_UpdatesAtomic ==
    /\ config \in Configs
    /\ config = supplied
    /\ \A c \in Callers : updating[c] # NoConfig <=> lock = c
    /\ \A c \in Callers :
          calls[c].pc # "idle" =>
              /\ calls[c].generator.config \in Configs
              /\ calls[c].generator.system_info = DetectedSystemInfo
              /\ calls[c].generated =
                    GeneratedName[calls[c].generator.config][calls[c].request.pattern]
              /\ calls[c].generated.kind = "ok" =>
                    calls[c].branch_name = calls[c].generated.value
              /\ (calls[c].pc = "done" /\ calls[c].result.kind = "ok") =>
                    calls[c].result.value.branch_name = calls[c].generated.value

\* A create_branch call that started under the default config is about to
\* record its branch while another caller has replaced the config, and a
\* second update waits for nothing: the lock is free again.
C20_Witness ==
    \E c \in Callers :
        /\ calls[c].pc = "save"
        /\ calls[c].generator.config = DefaultConfig
        /\ config = ShortConfig
        /\ GeneratedName[config][calls[c].request.pattern] # calls[c].generated
        /\ lock = 0

(***************************************************************************)
(* Properties of get_suggested_branches and suggest_pattern                *)
(***************************************************************************)

InSeq(x, seq) == \E i \in 1..Len(seq) : seq[i] = x

\* The types of a list whose name generation returns Ok, in the list's order.
Suggestible(types) ==
    SelectSeq(types, LAMBDA ft :
        generate_branch_name(sugIn.config,
            suggest_pattern(SugGenerator, sugIn.workspace_name,
                            SomeFeature(ft))).kind = "ok")

\* C21: get_suggested_branches returns one suggestion per allowed feature
\* type whose name generation succeeds, in the order of
\* allowed_feature_types, each with a type of that list; types whose
\* generation fails are left out, and the call as a whole never fails.
C21_SuggestionsNeverFail ==
    (sugOut # Nil /\ sugOut.op = "get_suggested_branches") =>
        /\ sugOut.result.kind = "ok"
        /\ LET types == Suggestible(sugIn.config.allowed_feature_types)
               got == sugOut.result.value
           IN  /\ Len(got) = Len(types)
               /\ \A i \in 1..Len(got) :
                     /\ got[i].feature_type = types[i]
                     /\ InSeq(got[i].feature_type,
                              sugIn.config.allowed_feature_types)

\* The calls that return give the types that generate, in the list's order.
ReturnedSuggestionsInOrder ==
    (sugOut # Nil /\ sugOut.op = "get_suggested_branches"
        /\ sugOut.result.kind = "ok") =>
        LET types == Suggestible(sugIn.config.allowed_feature_types)
            got == sugOut.result.value
        IN  /\ Len(got) = Len(types)
            /\ \A i \in 1..Len(got) :
                  /\ got[i].feature_type = types[i]
                  /\ InSeq(got[i].feature_type,
                           sugIn.config.allowed_feature_types)

\* A call that left a type out and still returned the others.
C21_Witness ==
    /\ sugOut # Nil
    /\ sugOut.op = "get_suggested_branches"
    /\ sugOut.result.kind = "ok"
    /\ sugOut.result.value # <<>>
    /\ Len(sugOut.result.value) < Len(sugIn.config.allowed_feature_types)

\* The feature type suggest_pattern was asked for: the caller's, or the
\* default of the config.
AskedFeatureType ==
    IF sugIn.feature_type.some THEN sugIn.feature_type.value
    ELSE sugIn.config.default_feature_type

\* C25: the pattern suggest_pattern returns carries the caller's feature
\* type when one was given and config.default_feature_type otherwise, with
\* the workspace name it was given, the detected user and machine and no
\* description; its type is in allowed_feature_types exactly when the type
\* asked for is.
C25_FeatureTypeAsAsked ==
    (sugOut # Nil /\ sugOut.op = "suggest_pattern") =>
        /\ sugOut.result.feature_type = AskedFeatureType
        /\ sugOut.result.workspace = sugIn.workspace_name
        /\ sugOut.result.username = DetectedSystemInfo.username
        /\ sugOut.result.machine = DetectedSystemInfo.machine_name
        /\ sugOut.result.description = NoString
        /\ InSeq(sugOut.result.feature_type, sugIn.config.allowed_feature_types)
             <=> InSeq(AskedFeatureType, sugIn.config.allowed_feature_types)

\* C25 as stated: every pattern suggest_pattern returns carries a feature
\* type of allowed_feature_types.
C25_FeatureTypeAllowed ==
    (sugOut # Nil /\ sugOut.op = "suggest_pattern") =>
        InSeq(sugOut.result.feature_type, sugIn.config.allowed_feature_types)

\* A pattern returned for a caller's type while the config's default is
\* another type and the allowed list holds neither.
C25_Witness ==
    /\ sugOut # Nil
    /\ sugOut.op = "suggest_pattern"
    /\ sugIn.feature_type.some
    /\ sugIn.feature_type.value # sugIn.config.default_feature_type
    /\ sugOut.result.feature_type = sugIn.feature_type.value
    /\ ~InSeq(sugOut.result.feature_type, sugIn.config.allowed_feature_types)

(***************************************************************************)
(* Properties of commit_changes and get_branches                           *)
(***************************************************************************)

\* A commit_changes call returned success:true in this step.
CommitSucceeds ==
    /\ repoOut'.op = "commit"
    /\ repoOut.op = "commit" => repoOut' # repoOut
    /\ repoOut'.result.kind = "ok"
    /\ repoOut'.result.value.success

\* The commits of the repository are one chain ending at HEAD.
LinearChain(r) ==
    /\ r.head = Len(r.commits)
    /\ \A i \in 1..Len(r.commits) :
          r.commits[i].parents = IF i = 1 THEN <<>> ELSE <<i - 1>>

\* C26: each successful commit_changes adds one commit whose only parent is
\* the commit HEAD pointed to before the call (none when HEAD had no commit)
\* and moves HEAD to it; so the commits of an initialized repository form a
\* linear chain ending at HEAD, and once there is a commit get_branches
\* returns exactly one branch, named main and marked current.
C26_LinearHistoryOnMain ==
    /\ [][CommitSucceeds =>
            /\ Len(repo'.commits) = Len(repo.commits) + 1
            /\ SubSeq(repo'.commits, 1, Len(repo.commits)) = repo.commits
            /\ repo'.head = Len(repo'.commits)
            /\ repo'.commits[repo'.head].parents =
                  IF repo.head # 0 THEN <<repo.head>> ELSE <<>>]_vars
    /\ [](/\ LinearChain(repo)
          /\ (repoOut.op = "branches" /\ repoOut.commits_before >= 1) =>
                /\ repoOut.result.kind = "ok"
                /\ Len(repoOut.result.value) = 1
                /\ repoOut.result.value[1].name = "main"
                /\ repoOut.result.value[1].is_current)

\* get_branches has returned after the second commit on main.
C26_Witness ==
    /\ repoOut.op = "branches"
    /\ repo.initialized
    /\ Len(repo.commits) >= 2
    /\ repo.commits[repo.head].parents = <<repo.head - 1>>
    /\ Len(repoOut.result.value) = 1

(***************************************************************************)
(* Properties of the commands over Mutex<GitService>                       *)
(***************************************************************************)

\* clone_repository has been entered and has not returned to its command.
CloneInProgress == clonePc \notin {"idle", "done"}

\* No read command runs between the start of a clone and its return.
ReadersExcludedByClone == CloneInProgress => req.pc \notin {"running"}

\* C22: a clone in progress does not stall another caller: a status,
\* branch-listing or repository-exists command that was invoked while the
\* clone runs can take its next step, the lock of the service.
C22_CloneDoesNotStallReaders ==
    (CloneInProgress /\ req.pc = "locking") => ENABLED AcquireLock

(***************************************************************************)
(* Properties of the checkout steps of create_branch                       *)
(***************************************************************************)

\* C23: a create_branch call whose create-and-checkout succeeded and that
\* returns a result reports created:true; with auto_switch it reports
\* switched:true and runs no second checkout; without it, it checks out
\* base_branch and reports switched:false with "Created branch .. (stayed on
\* ..)" when that checkout succeeded, and switched:true with "Created and
\* switched to branch .." when it was rejected, the repository being left on
\* the new branch and no error raised. A call that does not return a result
\* ended in the hard error of a switch-back that could not be started or of
\* the history insert.
C23_SwitchBackBestEffort ==
    LET call == calls[1]
        name == call.branch_name
    IN  (call.pc = "done" /\ call.createOk) =>
        /\ call.result.kind = "ok" =>
            /\ call.result.value.created
            /\ call.result.value.branch_name = name
            /\ call.request.auto_switch =>
                /\ call.checkouts = 1
                /\ call.result.value.switched
                /\ call.result.value.message = CreatedAndSwitched(name)
                /\ current = name
            /\ ~call.request.auto_switch =>
                /\ call.checkouts = 2
                /\ current \in {name, call.base_branch}
                /\ current = call.base_branch =>
                    /\ ~call.result.value.switched
                    /\ call.result.value.message =
                          CreatedStayed(name, call.base_branch)
                /\ current = name =>
                    /\ call.result.value.switched
                    /\ call.result.value.message = CreatedAndSwitched(name)
        /\ call.result.kind # "ok" =>
            call.result \in {Err("Failed to switch back to base branch"),
                             Err("Failed to save branch creation")}

\* A call without auto_switch whose switch-back was rejected has returned
\* created:true, switched:true.
C23_Witness ==
    /\ calls[1].pc = "done"
    /\ calls[1].createOk
    /\ ~calls[1].request.auto_switch
    /\ calls[1].checkouts = 2
    /\ calls[1].result.kind = "ok"
    /\ calls[1].result.value.switched
    /\ current = calls[1].branch_name

\* C24: a create_branch call whose create-and-checkout was rejected by git
\* returns Ok with created:false, switched:false and "Failed to create
\* branch: <stderr>"; it runs no further git command and appends no history
\* row, and the branches and the current branch are as before the call.
C24_RejectedCreateIsData ==
    LET call == calls[1] IN
    (call.pc = "done" /\ call.checkouts = 1 /\ ~call.createOk) =>
        /\ call.result = Ok(BranchCreateResult(call.branch_name, FALSE, FALSE,
                                FailedToCreate(call.branch_name)))
        /\ call.engineCalls = 3
        /\ Len(history) = call.startHistory
        /\ branches = call.startBranches
        /\ current = call.startCurrent

\* A rejected create-and-checkout, after an earlier call wrote a row.
C24_Witness ==
    /\ calls[1].pc = "done"
    /\ calls[1].checkouts = 1
    /\ ~calls[1].createOk
    /\ calls[1].result.kind = "ok"
    /\ Len(history) = 1

\* C27: a create_branch call without auto_switch that reports switched:false
\* leaves the repository on the branch that was current before the call.
C27_UnswitchedKeepsCurrent ==
    LET call == calls[1] IN
    (call.pc = "done" /\ ~call.request.auto_switch
        /\ call.result.kind = "ok" /\ ~call.result.value.switched) =>
        current = call.startCurrent

(***************************************************************************)
(* Properties of the key-file strategy of clone_repository                 *)
(***************************************************************************)

\* C28: within one clone at most one on-disk key pair is offered to the
\* remote, the first of ed25519, RSA, ECDSA that exists and constructs: the
\* key-file strategy is in the tried set from the first invocation that runs
\* it, and an invocation that begins with it tried looks at no key file and
\* returns no key pair, whatever pairs are left.
C28_OneKeyPairOffered ==
    /\ OfferedFrom("ssh_keys") <= 1
    /\ \A i \in 1..Len(offered) :
          offered[i].from = "ssh_keys" =>
              /\ offered[i].key = FirstUsableKey(cloneEnv)
              /\ "ssh_keys" \in tried_methods
    /\ (lastCb # NoCb /\ "ssh_keys" \in lastCb.triedBefore) =>
          /\ lastCb.keyLoop = <<>>
          /\ lastCb.result.kind = "ok" => lastCb.result.value.from # "ssh_keys"

\* The remote rejected the ed25519 pair and asked for a key again; the RSA
\* and ECDSA pairs exist and construct, and the invocation offered neither.
C28_Witness ==
    /\ lastCb # NoCb
    /\ lastCb.n >= 2
    /\ SSH_KEY \in lastCb.allowed
    /\ \E i \in 1..Len(offered) :
          offered[i].from = "ssh_keys" /\ offered[i].key = "id_ed25519"
    /\ {"id_rsa", "id_ecdsa"} \subseteq cloneEnv.keysOk
    /\ lastCb.keyLoop = <<>>
    /\ lastCb.result.kind = "err"

(***************************************************************************)
(* Properties of concurrent create_branch calls                            *)
(***************************************************************************)

CreatedTrue(call) == call.result.kind = "ok" /\ call.result.value.created

\* C29: of two create_branch calls that generated the same branch name and
\* ran on the same repository, at most one returns created:true; when one
\* did, the other returned created:false (or the hard error of a command
\* that could not be started), and branch_history never holds more than one
\* row for a name.
C29_OneCreationPerName ==
    /\ \A name \in createdNames : Cardinality(RowsFor(name)) <= 1
    /\ \A c, d \in Callers :
          (c # d /\ calls[c].pc = "done" /\ calls[d].pc = "done"
            /\ calls[c].generated.kind = "ok"
            /\ calls[c].generated = calls[d].generated) =>
              /\ ~(CreatedTrue(calls[c]) /\ CreatedTrue(calls[d]))
              /\ ~(calls[c].createOk /\ calls[d].createOk)
              /\ CreatedTrue(calls[c]) =>
                    \/ /\ calls[d].result.kind = "ok"
                       /\ ~calls[d].result.value.created
                       /\ ~calls[d].result.value.switched
                    \/ calls[d].result.kind = "err"

\* Both calls passed the existence check before either created the branch;
\* one created it and the other's checkout -b was rejected.
C29_Witness ==
    /\ calls[1].pc = "done"
    /\ calls[2].pc = "done"
    /\ calls[1].generated = calls[2].generated
    /\ calls[1].checkouts >= 1
    /\ calls[2].checkouts = 1
    /\ CreatedTrue(calls[1])
    /\ calls[2].result = Ok(BranchCreateResult(calls[2].branch_name, FALSE, FALSE,
                                FailedToCreate(calls[2].branch_name)))
    /\ Cardinality(RowsFor(calls[1].branch_name)) = 1

(***************************************************************************)
(* Totality of generate_branch_name                                        *)
(***************************************************************************)

\* C30: generate_branch_name is total: for every config and pattern it
\* returns a name or a validation error and never aborts, also when
\* max_branch_name_length falls inside a multi-byte character.
C30_GenerateIsTotal ==
    genOut # Nil => genOut.kind \in {"ok", "err"}

====
